---------------------------- MODULE Spec2Model ----------------------------
(***************************************************************************)
(* Model of the dropship-intelligence sourcing pipeline:                   *)
(*   - the opportunity score of product_scraper.py,                        *)
(*   - the red-flag rules of supplier_validator.py,                        *)
(*   - the validation runs of supplier_validator.py,                       *)
(*     validate_suppliers_complete.py and final_validator.py together     *)
(*     with the two CSV files they write.                                  *)
(*                                                                         *)
(* Numbers that are floats in the program are kept as scaled integers:     *)
(* a rating is in hundredths of a star, a feedback percentage in           *)
(* hundredths of a percent, a store age in units of 1/36525 year (so that  *)
(* days / 365.25 is exact).  A date is the number of days between it and   *)
(* datetime.now().                                                         *)
(***************************************************************************)
EXTENDS Integers, Sequences, FiniteSets, TLC

VARIABLES
    scoreSt,    \* the scoring harness: the last two scored inputs
    flagSt,     \* the red-flag harness: the drawn store_info and its flags
    parseSt,    \* the parser harness: the function, its drawn input, its result
    \* the two CSV files on disk: None (no such file) or Some(its lines)
    ledger,               \* validated_suppliers.csv
    equivalents,          \* aliexpress_equivalents.csv
    \* the running process; all of it is lost when the process ends
    prog,                 \* the entry point that runs, "none" before the first
    pc,                   \* where the process is
    i,                    \* the loop index: the candidate being processed
    n,                    \* len(products)
    url,                  \* the platform of the current candidate's URL
    retry_count,          \* of find_aliexpress_equivalent
    store_info,           \* of validate_product: None until scraped
    validated_suppliers,  \* self.validated_suppliers (validated_list)
    red_flags,            \* self.red_flags
    file_exists,          \* the local of the append in progress
    buf,                  \* the lines written to the open file, not yet flushed
    proxy,                \* whether main configured a proxy
    ceiling,              \* the configured ceiling of the retry delay
    session,              \* the browser: open or not, launches and closes
    \* history
    run,                  \* the number of invocations started
    appended,             \* the candidates whose append returned in this run
    attempted,            \* the candidates the loop body was entered for in this run
    origin,               \* the platform of the candidate's URL in the input
    path,                 \* the states the current candidate went through
    net,                  \* what the current candidate awaited and requested
    pause,                \* the pause the last loop end awaited
    rotated,              \* whether the last loop end rotated the user agent
    requests              \* the navigations since the last rotation

files == <<ledger, equivalents>>
proc == <<prog, pc, i, n, url, retry_count, store_info, validated_suppliers,
          red_flags, file_exists, buf, run, appended, attempted>>
conf == <<proxy, ceiling>>
story == <<origin, path, net>>
pace == <<pause, rotated, requests>>
aux == <<conf, session, story, pace>>
vars == <<scoreSt, flagSt, parseSt, files, proc, aux>>

\* an Optional value: None, or Some(v) holding v
None == <<>>
Some(v) == <<v>>
Val(x) == x[1]

Min(a, b) == IF a < b THEN a ELSE b

(***************************************************************************)
(* Bounds of the model.                                                    *)
(***************************************************************************)
\* the distance from each threshold of the score at which inputs are sampled
ScoreDelta == 1
\* longest shipping text, in words, the red-flag harness draws
ShipLen == 2
\* the number of candidates of a batch
NumCand == 2
\* longest shipping text, in words, the parser harness draws
ShippingLen == 4
\* longest order or review text, in pieces, the parser harness draws
NumberLen == 4
\* the most products the harness hands to deduplicate_products
DedupeLen == 3
\* the number of process invocations
MaxRuns == 2
\* the largest batch of the pacing runs
MaxBatch == 41

(***************************************************************************)
(* product_scraper.py: ProductScraper.calculate_opportunity_score          *)
(***************************************************************************)
calculate_opportunity_score_noclamp(orders, reviews, rating) ==
    LET demand == IF orders > 10000 THEN 50
                  ELSE IF orders > 5000 THEN 40
                  ELSE IF orders > 1000 THEN 30
                  ELSE IF orders > 500 THEN 20
                  ELSE IF orders > 100 THEN 10
                  ELSE 0
        competition == IF reviews < 50 THEN 30
                       ELSE IF reviews < 100 THEN 20
                       ELSE IF reviews < 500 THEN 10
                       ELSE IF reviews < 1000 THEN 5
                       ELSE 0
        ratingPts == IF rating >= 450 THEN 20
                     ELSE IF rating >= 400 THEN 15
                     ELSE IF rating >= 350 THEN 10
                     ELSE IF rating >= 300 THEN 5
                     ELSE 0
        bonus == IF orders > 500 /\ reviews < 100 THEN 10 ELSE 0
    IN  demand + competition + ratingPts + bonus

calculate_opportunity_score_flipbonus(orders, reviews, rating) ==
    LET demand == IF orders > 10000 THEN 50
                  ELSE IF orders > 5000 THEN 40
                  ELSE IF orders > 1000 THEN 30
                  ELSE IF orders > 500 THEN 20
                  ELSE IF orders > 100 THEN 10
                  ELSE 0
        competition == IF reviews < 50 THEN 30
                       ELSE IF reviews < 100 THEN 20
                       ELSE IF reviews < 500 THEN 10
                       ELSE IF reviews < 1000 THEN 5
                       ELSE 0
        ratingPts == IF rating >= 450 THEN 20
                     ELSE IF rating >= 400 THEN 15
                     ELSE IF rating >= 350 THEN 10
                     ELSE IF rating >= 300 THEN 5
                     ELSE 0
        bonus == IF orders < 500 /\ reviews < 100 THEN 10 ELSE 0
    IN  Min(100, demand + competition + ratingPts + bonus)

calculate_opportunity_score_ge(orders, reviews, rating) ==
    LET demand == IF orders >= 10000 THEN 50
                  ELSE IF orders >= 5000 THEN 40
                  ELSE IF orders >= 1000 THEN 30
                  ELSE IF orders >= 500 THEN 20
                  ELSE IF orders >= 100 THEN 10
                  ELSE 0
        competition == IF reviews < 50 THEN 30
                       ELSE IF reviews < 100 THEN 20
                       ELSE IF reviews < 500 THEN 10
                       ELSE IF reviews < 1000 THEN 5
                       ELSE 0
        ratingPts == IF rating >= 450 THEN 20
                     ELSE IF rating >= 400 THEN 15
                     ELSE IF rating >= 350 THEN 10
                     ELSE IF rating >= 300 THEN 5
                     ELSE 0
        bonus == IF orders > 500 /\ reviews < 100 THEN 10 ELSE 0
    IN  Min(100, demand + competition + ratingPts + bonus)

calculate_opportunity_score(orders, reviews, rating) ==
    LET demand == IF orders > 10000 THEN 50
                  ELSE IF orders > 5000 THEN 40
                  ELSE IF orders > 1000 THEN 30
                  ELSE IF orders > 500 THEN 20
                  ELSE IF orders > 100 THEN 10
                  ELSE 0
        competition == IF reviews < 50 THEN 30
                       ELSE IF reviews < 100 THEN 20
                       ELSE IF reviews < 500 THEN 10
                       ELSE IF reviews < 1000 THEN 5
                       ELSE 0
        ratingPts == IF rating >= 450 THEN 20
                     ELSE IF rating >= 400 THEN 15
                     ELSE IF rating >= 350 THEN 10
                     ELSE IF rating >= 300 THEN 5
                     ELSE 0
        bonus == IF orders > 500 /\ reviews < 100 THEN 10 ELSE 0
    IN  Min(100, demand + competition + ratingPts + bonus)

\* each threshold, and the values ScoreDelta below and above it
Around(thresholds) ==
    UNION {{t - ScoreDelta, t, t + ScoreDelta} : t \in thresholds}

OrdersDom == {0} \cup Around({100, 500, 1000, 5000, 10000})
ReviewsDom == {0} \cup Around({50, 100, 500, 1000})
RatingDom == {0, 500} \cup Around({300, 350, 400, 450})

Scored(o, c, r) ==
    [orders |-> o, reviews |-> c, rating |-> r,
     score |-> calculate_opportunity_score(o, c, r)]

ScoreInit ==
    \E o \in OrdersDom, c \in ReviewsDom, r \in RatingDom :
        scoreSt = [cur |-> Scored(o, c, r), prev |-> Scored(o, c, r)]

\* score again with another demand, the other two inputs fixed
ScoreDemand ==
    \E o \in OrdersDom :
        scoreSt' = [cur |-> Scored(o, scoreSt.cur.reviews, scoreSt.cur.rating),
                    prev |-> scoreSt.cur]

\* score again with another competition, the other two inputs fixed
ScoreCompetition ==
    \E c \in ReviewsDom :
        scoreSt' = [cur |-> Scored(scoreSt.cur.orders, c, scoreSt.cur.rating),
                    prev |-> scoreSt.cur]

\* score again with another rating, the other two inputs fixed
ScoreRating ==
    \E r \in RatingDom :
        scoreSt' = [cur |-> Scored(scoreSt.cur.orders, scoreSt.cur.reviews, r),
                    prev |-> scoreSt.cur]

(***************************************************************************)
(* supplier_validator.py: the text parsers and the red-flag rules.         *)
(* A text is a sequence of words; a word is [w |-> the word, n |-> 0] or,  *)
(* for a run of digits, [w |-> "#", n |-> its value].                      *)
(***************************************************************************)
Word(w) == [w |-> w, n |-> 0]
Num(v) == [w |-> "#", n |-> v]

\* str.lower() of one word
Lower(w) ==
    CASE w = "AliExpress" -> "aliexpress"
      [] w = "Standard" -> "standard"
      [] w = "Shipping" -> "shipping"
      [] w = "ePacket" -> "epacket"
      [] w = "E-Packet" -> "e-packet"
      [] w = "DHL" -> "dhl"
      [] w = "FedEx" -> "fedex"
      [] w = "UPS" -> "ups"
      [] w = "Express" -> "express"
      [] w = "Days" -> "days"
      [] w = "Free" -> "free"
      [] w = "Groups" -> "groups"
      [] w = "Yoga" -> "yoga"
      [] w = "Mat" -> "mat"
      [] w = "Pro" -> "pro"
      [] OTHER -> w

\* the keywords of parse_shipping_days that are substrings of a lower-case word
KeywordsIn(w) ==
    CASE w = "aliexpress" -> {"aliexpress", "express"}
      [] w = "standard" -> {"standard"}
      [] w = "epacket" -> {"epacket"}
      [] w = "e-packet" -> {"e-packet"}
      [] w = "dhl" -> {"dhl"}
      [] w = "fedex" -> {"fedex"}
      [] w = "ups" -> {"ups"}
      [] w = "groups" -> {"ups"}
      [] w = "express" -> {"express"}
      [] OTHER -> {}

\* keyword in text
Contains(text, keyword) ==
    \E k \in 1..Len(text) : keyword \in KeywordsIn(text[k].w)

IsNum(tok) == tok.w = "#"
\* the pattern days? matches at the start of this word
IsDays(tok) == tok.w \in {"day", "days"}

\* the positions where r'(\d+)\s*days?' (and r'(\d+)\s*day') match
DaysMatches(text) ==
    {k \in 1..(Len(text) - 1) : IsNum(text[k]) /\ IsDays(text[k + 1])}

\* the positions where r'(\d+)\s*-\s*(\d+)\s*days?' matches
RangeMatches(text) ==
    {k \in 1..(Len(text) - 3) :
        /\ IsNum(text[k])
        /\ text[k + 1].w = "-"
        /\ IsNum(text[k + 2])
        /\ IsDays(text[k + 3])}

\* re.search returns the leftmost match
Leftmost(S) == CHOOSE k \in S : \A j \in S : k <= j

\* the numeric extraction tried before the keywords
parse_shipping_days_daysfirst(shipping_text) ==
    IF shipping_text = None \/ Val(shipping_text) = <<>> THEN None
    ELSE LET text == [k \in 1..Len(Val(shipping_text)) |->
                         [Val(shipping_text)[k] EXCEPT !.w = Lower(@)]]
         IN  IF DaysMatches(text) # {}
                  THEN Some(text[Leftmost(DaysMatches(text))].n)
             ELSE IF Contains(text, "standard") /\ Contains(text, "aliexpress")
                  THEN Some(30)
             ELSE IF Contains(text, "epacket") \/ Contains(text, "e-packet")
                  THEN Some(15)
             ELSE IF Contains(text, "dhl") \/ Contains(text, "fedex")
                     \/ Contains(text, "ups")
                  THEN Some(7)
             ELSE IF Contains(text, "express") THEN Some(10)
             ELSE Some(30)

\* shipping_text is None or Some(text); the result is None or Some(days)
parse_shipping_days(shipping_text) ==
    IF shipping_text = None \/ Val(shipping_text) = <<>> THEN None
    ELSE LET text == [k \in 1..Len(Val(shipping_text)) |->
                         [Val(shipping_text)[k] EXCEPT !.w = Lower(@)]]
         IN  IF Contains(text, "standard") /\ Contains(text, "aliexpress")
                  THEN Some(30)
             ELSE IF Contains(text, "epacket") \/ Contains(text, "e-packet")
                  THEN Some(15)
             ELSE IF Contains(text, "dhl") \/ Contains(text, "fedex")
                     \/ Contains(text, "ups")
                  THEN Some(7)
             ELSE IF Contains(text, "express") THEN Some(10)
             ELSE IF DaysMatches(text) # {}
                  THEN Some(text[Leftmost(DaysMatches(text))].n)
             ELSE IF RangeMatches(text) # {}
                  THEN Some(text[Leftmost(RangeMatches(text)) + 2].n)
             ELSE Some(30)

\* open_date is None or Some(the number of days since the store opened);
\* the result is age_delta.days / 365.25 in units of 1/36525 year
calculate_store_age_years(open_date) ==
    IF open_date = None THEN None ELSE Some(Val(open_date) * 100)

OneYear == 36525

AgeLt1 == "Store age < 1 year"
AgeUnknown == "Could not determine store age"
FeedbackLt95 == "Feedback < 95%"
FeedbackUnknown == "Could not determine feedback percentage"
ShippingGt30 == "Shipping > 30 days"

\* the rules as an if/elif chain that stops at the first flag
check_red_flags_shortcircuit(info) ==
    LET store_age == calculate_store_age_years(info.store_open_date)
        feedback == info.feedback_percentage
        shipping_days == parse_shipping_days(info.shipping_method)
    IN  IF store_age # None /\ Val(store_age) < OneYear THEN <<AgeLt1>>
        ELSE IF store_age = None THEN <<AgeUnknown>>
        ELSE IF feedback # None /\ Val(feedback) < 9500 THEN <<FeedbackLt95>>
        ELSE IF feedback = None THEN <<FeedbackUnknown>>
        ELSE IF shipping_days # None /\ Val(shipping_days) # 0
                /\ Val(shipping_days) > 30
             THEN <<ShippingGt30>>
        ELSE <<>>

\* the rules without the one on the store age
check_red_flags_noage(info) ==
    LET feedback == info.feedback_percentage
        shipping_method == IF info.shipping_method = None
                           THEN Some(<<>>) ELSE info.shipping_method
        shipping_days == parse_shipping_days(shipping_method)
        feedbackFlags == IF feedback # None /\ Val(feedback) < 9500
                         THEN <<FeedbackLt95>>
                         ELSE IF feedback = None THEN <<FeedbackUnknown>>
                         ELSE <<>>
        shippingFlags == IF shipping_days # None /\ Val(shipping_days) # 0
                            /\ Val(shipping_days) > 30
                         THEN <<ShippingGt30>>
                         ELSE <<>>
    IN  feedbackFlags \o shippingFlags

check_red_flags(info) ==
    LET store_age == calculate_store_age_years(info.store_open_date)
        feedback == info.feedback_percentage
        shipping_method == IF info.shipping_method = None
                           THEN Some(<<>>) ELSE info.shipping_method
        shipping_days == parse_shipping_days(shipping_method)
        ageFlags == IF store_age # None /\ Val(store_age) < OneYear
                    THEN <<AgeLt1>>
                    ELSE IF store_age = None THEN <<AgeUnknown>>
                    ELSE <<>>
        feedbackFlags == IF feedback # None /\ Val(feedback) < 9500
                         THEN <<FeedbackLt95>>
                         ELSE IF feedback = None THEN <<FeedbackUnknown>>
                         ELSE <<>>
        shippingFlags == IF shipping_days # None /\ Val(shipping_days) # 0
                            /\ Val(shipping_days) > 30
                         THEN <<ShippingGt30>>
                         ELSE <<>>
    IN  ageFlags \o feedbackFlags \o shippingFlags

(***************************************************************************)
(* The red-flag harness: check_red_flags applied to drawn store profiles.  *)
(***************************************************************************)
ShipVocab ==
    {Word("AliExpress"), Word("Standard"), Word("DHL"), Word("days"),
     Num(20), Num(30), Num(31)}

RECURSIVE TextsOfLen(_)
TextsOfLen(k) ==
    IF k = 0 THEN {<<>>}
    ELSE {Append(t, w) : t \in TextsOfLen(k - 1), w \in ShipVocab}

ShipTexts == {None} \cup {Some(t) : t \in UNION {TextsOfLen(k) : k \in 0..ShipLen}}

\* store ages in days: just opened, half a year, either side of one year, two years
OpenDates == {None} \cup {Some(d) : d \in {0, 183, 365, 366, 730}}
Feedbacks == {None} \cup {Some(f) : f \in {0, 9000, 9499, 9500, 9700, 10000}}

Profile(d, f, s) ==
    [store_open_date |-> d, feedback_percentage |-> f, shipping_method |-> s]

\* the harness draws a profile, then applies check_red_flags to it
FlagInit ==
    \E d \in OpenDates, f \in Feedbacks, s \in ShipTexts :
        flagSt = [in |-> Profile(d, f, s), done |-> FALSE, out |-> <<>>]

EvalFlags ==
    /\ ~flagSt.done
    /\ flagSt' = [flagSt EXCEPT !.done = TRUE, !.out = check_red_flags(flagSt.in)]

FlagNext == EvalFlags /\ UNCHANGED <<scoreSt, parseSt, files, proc, aux>>

FlagIdle == flagSt = [in |-> Profile(None, None, None), done |-> TRUE, out |-> <<>>]
ScoreIdle == scoreSt = [cur |-> Scored(0, 0, 0), prev |-> Scored(0, 0, 0)]
ParseIdle == parseSt = [fn |-> "none", in |-> <<>>, done |-> TRUE, out |-> <<>>]

(***************************************************************************)
(* The parser harness: one parser applied to a drawn input.                *)
(***************************************************************************)
Drawn(fn, in) == [fn |-> fn, in |-> in, done |-> FALSE, out |-> <<>>]

\* the words of the drawn shipping texts
ShippingWords ==
    {Word("AliExpress"), Word("Standard"), Word("ePacket"), Word("E-Packet"),
     Word("UPS"), Word("Groups"), Word("Express"), Word("days"), Word("-"),
     Num(12), Num(18)}

ShippingInit ==
    \E len \in 0..ShippingLen : \E text \in [1..len -> ShippingWords] :
        parseSt = Drawn("parse_shipping_days", text)

EvalShipping ==
    /\ parseSt.fn = "parse_shipping_days"
    /\ ~parseSt.done
    /\ parseSt' = [parseSt EXCEPT !.done = TRUE,
                                  !.out = parse_shipping_days(Some(parseSt.in))]

ShippingNext == EvalShipping /\ UNCHANGED <<scoreSt, flagSt, files, proc, aux>>

(***************************************************************************)
(* product_scraper.py: parse_number.  Here a text is a sequence of         *)
(* characters.                                                             *)
(***************************************************************************)
\* str.upper() of one character
Upper(c) ==
    CASE c = "k" -> "K"
      [] c = "m" -> "M"
      [] c = "o" -> "O"
      [] c = "n" -> "N"
      [] c = "t" -> "T"
      [] c = "h" -> "H"
      [] c = "b" -> "B"
      [] c = "u" -> "U"
      [] c = "g" -> "G"
      [] OTHER -> c

IsDigit(c) == c \in {"0", "1", "2", "3", "4", "5", "6", "7", "8", "9"}
DigitVal(c) ==
    CASE c = "0" -> 0 [] c = "1" -> 1 [] c = "2" -> 2 [] c = "3" -> 3
      [] c = "4" -> 4 [] c = "5" -> 5 [] c = "6" -> 6 [] c = "7" -> 7
      [] c = "8" -> 8 [] c = "9" -> 9

\* int() of a run of digits; 0 for the empty run
RECURSIVE IntOf(_)
IntOf(digits) ==
    IF digits = <<>> THEN 0
    ELSE IntOf(SubSeq(digits, 1, Len(digits) - 1)) * 10
         + DigitVal(digits[Len(digits)])

\* str.strip()
strip(text) ==
    LET inked == {k \in 1..Len(text) : text[k] # " "}
    IN  IF inked = {} THEN <<>>
        ELSE SubSeq(text, Leftmost(inked),
                    CHOOSE k \in inked : \A j \in inked : j <= k)

\* str.replace(c, '')
replace(text, c) == SelectSeq(text, LAMBDA x : x # c)

\* the first e digits of a fractional part, padded with zeros
RECURSIVE Padded(_, _)
Padded(frac, e) ==
    IF e = 0 THEN <<>>
    ELSE IF frac = <<>> THEN <<"0">> \o Padded(<<>>, e - 1)
    ELSE <<frac[1]>> \o Padded(Tail(frac), e - 1)

\* int(float(text) * 10^e): None when float() raises.  float() takes blanks
\* around an optional sign and digits with at most one point among them.
FloatTimes(text, e) ==
    LET bare == strip(text)
        body == IF bare # <<>> /\ bare[1] = "+" THEN Tail(bare) ELSE bare
        points == {k \in 1..Len(body) : body[k] = "."}
        whole == IF points = {} THEN body
                 ELSE SubSeq(body, 1, Leftmost(points) - 1)
        frac == IF points = {} THEN <<>>
                ELSE SubSeq(body, Leftmost(points) + 1, Len(body))
    IN  IF \/ Cardinality(points) > 1
           \/ whole \o frac = <<>>
           \/ \E k \in 1..Len(body) : ~IsDigit(body[k]) /\ body[k] # "."
        THEN None
        ELSE Some(IntOf(whole) * 10^e + IntOf(Padded(frac, e)))

\* the leftmost match of r'(\d+)' in a text that holds a digit
FirstDigits(text) ==
    LET k == Leftmost({j \in 1..Len(text) : IsDigit(text[j])})
        stop == Leftmost({j \in (k + 1)..(Len(text) + 1) :
                             j = Len(text) + 1 \/ ~IsDigit(text[j])})
    IN  SubSeq(text, k, stop - 1)

parse_number(text) ==
    IF text = <<>> THEN 0
    ELSE LET upper == [k \in 1..Len(strip(text)) |-> Upper(strip(text)[k])]
             t == replace(upper, ",")
             has(c) == \E k \in 1..Len(t) : t[k] = c
         IN  IF has("K")
                  THEN IF FloatTimes(replace(t, "K"), 3) = None THEN 0
                       ELSE Val(FloatTimes(replace(t, "K"), 3))
             ELSE IF has("M")
                  THEN IF FloatTimes(replace(t, "M"), 6) = None THEN 0
                       ELSE Val(FloatTimes(replace(t, "M"), 6))
             ELSE IF \E k \in 1..Len(t) : IsDigit(t[k])
                  THEN IntOf(FirstDigits(t))
             ELSE 0

\* the pieces of the drawn order and review texts
NumberPieces ==
    {<<"2">>, <<"5">>, <<".">>, <<" ">>, <<"+">>, <<"K">>, <<"k">>, <<"M">>,
     <<"m", "o", "n", "t", "h">>, <<"b", "o", "u", "g", "h", "t">>}

RECURSIVE Flatten(_)
Flatten(pieces) ==
    IF Len(pieces) = 0 THEN <<>> ELSE Head(pieces) \o Flatten(Tail(pieces))

NumberInit ==
    \E len \in 0..NumberLen : \E pieces \in [1..len -> NumberPieces] :
        parseSt = Drawn("parse_number", Flatten(pieces))

EvalNumber ==
    /\ parseSt.fn = "parse_number"
    /\ ~parseSt.done
    /\ parseSt' = [parseSt EXCEPT !.done = TRUE,
                                  !.out = parse_number(parseSt.in)]

NumberNext == EvalNumber /\ UNCHANGED <<scoreSt, flagSt, files, proc, aux>>

(***************************************************************************)
(* product_scraper.py: deduplicate_products.  A title is a sequence of     *)
(* words, a product is [id |-> its place in the input, title |-> ...].     *)
(***************************************************************************)
\* set(title_lower.split()[:5])
title_words(title) == {Lower(title[k]) : k \in 1..Min(5, Len(title))}

\* the loop over products from the k-th on
RECURSIVE DedupeFrom(_, _, _, _)
DedupeFrom(products, k, unique, seen_titles) ==
    IF k > Len(products) THEN unique
    ELSE LET words == title_words(products[k].title)
             is_duplicate ==
                 \E j \in 1..Len(seen_titles) :
                     Cardinality(words \cap seen_titles[j]) >= 3
         IN  IF is_duplicate
             THEN DedupeFrom(products, k + 1, unique, seen_titles)
             ELSE DedupeFrom(products, k + 1, Append(unique, products[k]),
                             Append(seen_titles, words))

deduplicate_products(products) == DedupeFrom(products, 1, <<>>, <<>>)

\* the titles of the drawn products
Titles ==
    {<<"Mat">>,
     <<"Yoga", "Mat">>,
     <<"yoga", "mat">>,
     <<"Yoga", "Mat", "Pro">>,
     <<"Pro", "yoga", "mat", "xl">>,
     <<"mat", "mat", "mat", "yoga">>,
     <<"best", "grip", "non", "slip", "thick", "yoga", "mat", "pro">>,
     <<"thick", "non", "slip", "gym", "floor", "yoga", "mat", "pro">>}

DedupeInit ==
    \E len \in 0..DedupeLen : \E titles \in [1..len -> Titles] :
        parseSt = Drawn("deduplicate_products",
                        [k \in 1..len |-> [id |-> k, title |-> titles[k]]])

EvalDedupe ==
    /\ parseSt.fn = "deduplicate_products"
    /\ ~parseSt.done
    /\ parseSt' = [parseSt EXCEPT !.done = TRUE,
                                  !.out = deduplicate_products(parseSt.in)]

DedupeNext == EvalDedupe /\ UNCHANGED <<scoreSt, flagSt, files, proc, aux>>

(***************************************************************************)
(* supplier_validator.py: parse_date.  Here a text is a sequence of        *)
(* tokens: a maximal run of digits, a maximal run of letters, a maximal    *)
(* run of blanks, or one of the characters - / and the comma.  A date is   *)
(* [y, m, d].                                                              *)
(***************************************************************************)
Digits(ds) == [k |-> "d", s |-> ds]
Letters(w) == [k |-> "w", s |-> <<w>>]
Sep(c) == [k |-> c, s |-> <<>>]
Blank == Sep(" ")

Date(y, m, d) == [y |-> y, m |-> m, d |-> d]

\* datetime.now().year
CurrentYear == 2026

\* the month a word names in full, for %B; 0 when it names none
MonthOf(w) ==
    CASE w \in {"January", "january"} -> 1
      [] w \in {"February", "february"} -> 2
      [] w \in {"March", "march"} -> 3
      [] w \in {"April", "april"} -> 4
      [] w \in {"May", "may"} -> 5
      [] w \in {"June", "june"} -> 6
      [] w \in {"July", "july"} -> 7
      [] w \in {"August", "august"} -> 8
      [] w \in {"September", "september"} -> 9
      [] w \in {"October", "october"} -> 10
      [] w \in {"November", "november"} -> 11
      [] w \in {"December", "december"} -> 12
      [] OTHER -> 0

DaysIn(y, m) ==
    IF m \in {4, 6, 9, 11} THEN 30
    ELSE IF m # 2 THEN 31
    ELSE IF y % 4 = 0 /\ (y % 100 # 0 \/ y % 400 = 0) THEN 29
    ELSE 28

\* datetime(y, m, d), as strptime builds it: None when it raises
MakeDate(y, m, d) ==
    IF y >= 1 /\ m \in 1..12 /\ d \in 1..DaysIn(y, m) THEN Some(Date(y, m, d))
    ELSE None

IsSlashOrDash(tok) == tok.k \in {"-", "/"}
\* \w matches letters and digits alike
IsWordRun(tok) == tok.k \in {"d", "w"}
\* \d{4} at the end of a run of digits, and at its start
LastFour(tok) == SubSeq(tok.s, Len(tok.s) - 3, Len(tok.s))
FirstFour(tok) == SubSeq(tok.s, 1, 4)
\* \d{1,2} at the end of a run of digits, and at its start
LastTwo(tok) == SubSeq(tok.s, IF Len(tok.s) > 2 THEN Len(tok.s) - 1 ELSE 1, Len(tok.s))
FirstTwo(tok) == SubSeq(tok.s, 1, Min(2, Len(tok.s)))

\* the tokens where r'(\d{4})[-\/](\d{1,2})[-\/](\d{1,2})' matches
YearFirstMatches(text) ==
    {p \in 1..(Len(text) - 4) :
        /\ text[p].k = "d" /\ Len(text[p].s) >= 4
        /\ IsSlashOrDash(text[p + 1])
        /\ text[p + 2].k = "d" /\ Len(text[p + 2].s) <= 2
        /\ IsSlashOrDash(text[p + 3])
        /\ text[p + 4].k = "d"}

\* the tokens where r'(\d{1,2})[-\/](\d{1,2})[-\/](\d{4})' matches
YearLastMatches(text) ==
    {p \in 1..(Len(text) - 4) :
        /\ text[p].k = "d"
        /\ IsSlashOrDash(text[p + 1])
        /\ text[p + 2].k = "d" /\ Len(text[p + 2].s) <= 2
        /\ IsSlashOrDash(text[p + 3])
        /\ text[p + 4].k = "d" /\ Len(text[p + 4].s) >= 4}

\* the tokens that end the \w+ of a match of r'(\w+)\s+(\d{1,2}),\s+(\d{4})'
LongFormMatches(text) ==
    {p \in 1..(Len(text) - 5) :
        /\ IsWordRun(text[p])
        /\ text[p + 1] = Blank
        /\ text[p + 2].k = "d" /\ Len(text[p + 2].s) <= 2
        /\ text[p + 3].k = ","
        /\ text[p + 4] = Blank
        /\ text[p + 5].k = "d" /\ Len(text[p + 5].s) >= 4}

\* the pairs <<p, q>> of a match of r'(\d{4})\s+(\w+)\s+(\d{1,2})': the
\* year is token p, the \w+ runs from token p + 2 to token q
YearWordMatches(text) ==
    {pq \in (1..Len(text)) \X (1..Len(text)) :
        LET p == pq[1]
            q == pq[2]
        IN  /\ q >= p + 2 /\ q + 2 <= Len(text)
            /\ text[p].k = "d" /\ Len(text[p].s) >= 4
            /\ text[p + 1] = Blank
            /\ \A j \in (p + 2)..q : IsWordRun(text[j])
            /\ text[q + 1] = Blank
            /\ text[q + 2].k = "d"}

\* strptime over the five formats, applied to the leftmost match of the
\* first pattern: only '%Y-%m-%d' can take a text that starts with four digits
TryYearFirst(text) ==
    IF YearFirstMatches(text) = {} THEN None
    ELSE LET p == Leftmost(YearFirstMatches(text))
         IN  IF text[p + 1].k = "-" /\ text[p + 3].k = "-"
             THEN MakeDate(IntOf(LastFour(text[p])), IntOf(text[p + 2].s),
                           IntOf(FirstTwo(text[p + 4])))
             ELSE None

\* ... of the second pattern: '%m/%d/%Y' is tried before '%d/%m/%Y', and no
\* format takes dashes around a year that comes last
TryYearLast(text) ==
    IF YearLastMatches(text) = {} THEN None
    ELSE LET p == Leftmost(YearLastMatches(text))
             a == IntOf(LastTwo(text[p]))
             b == IntOf(text[p + 2].s)
             y == IntOf(FirstFour(text[p + 4]))
         IN  IF text[p + 1].k = "/" /\ text[p + 3].k = "/"
             THEN IF MakeDate(y, a, b) # None THEN MakeDate(y, a, b)
                  ELSE MakeDate(y, b, a)
             ELSE None

\* ... of the third pattern: '%B %d, %Y' takes it when the \w+ is a month name
TryLongForm(text) ==
    IF LongFormMatches(text) = {} THEN None
    ELSE LET p == Leftmost(LongFormMatches(text))
         IN  IF text[p].k = "w" /\ (p = 1 \/ ~IsWordRun(text[p - 1]))
             THEN MakeDate(IntOf(FirstFour(text[p + 5])), MonthOf(text[p].s[1]),
                           IntOf(text[p + 2].s))
             ELSE None

\* ... of the fourth pattern: '%Y %B %d'
TryYearWord(text) ==
    IF YearWordMatches(text) = {} THEN None
    ELSE LET p == Leftmost({pq[1] : pq \in YearWordMatches(text)})
             q == CHOOSE q \in 1..Len(text) : <<p, q>> \in YearWordMatches(text)
         IN  IF q = p + 2 /\ text[q].k = "w"
             THEN MakeDate(IntOf(LastFour(text[p])), MonthOf(text[q].s[1]),
                           IntOf(FirstTwo(text[q + 2])))
             ELSE None

\* re.search(r'(\d{4})', date_text): the first run of four digits or more
YearRuns(text) == {p \in 1..Len(text) : text[p].k = "d" /\ Len(text[p].s) >= 4}

parse_date(date_text) ==
    IF date_text = <<>> THEN None
    ELSE IF TryYearFirst(date_text) # None THEN TryYearFirst(date_text)
    ELSE IF TryYearLast(date_text) # None THEN TryYearLast(date_text)
    ELSE IF TryLongForm(date_text) # None THEN TryLongForm(date_text)
    ELSE IF TryYearWord(date_text) # None THEN TryYearWord(date_text)
    ELSE IF YearRuns(date_text) = {} THEN None
    ELSE LET year == IntOf(FirstFour(date_text[Leftmost(YearRuns(date_text))]))
         IN  IF 2000 <= year /\ year <= CurrentYear THEN Some(Date(year, 1, 1))
             ELSE None

\* the numbers and the words of the drawn date texts
DateNumbers ==
    {Digits(<<"2", "0", "2", "0">>), Digits(<<"2", "0", "1", "7">>),
     Digits(<<"1", "1", "0", "2">>), Digits(<<"0", "3">>), Digits(<<"1", "5">>)}
DateWords == {Letters("March"), Letters("Mar"), Letters("Since")}

\* the drawn date texts: three numbers around dashes or slashes, a word and
\* two numbers, a number, a word and a number, and the shorter ones
DateTexts ==
    {<<a, s, b, t, c>> : a \in DateNumbers, b \in DateNumbers, c \in DateNumbers,
                         s \in {Sep("-"), Sep("/")}, t \in {Sep("-"), Sep("/")}}
    \cup {<<w, Blank, a, Sep(","), Blank, b>> :
              w \in DateWords, a \in DateNumbers, b \in DateNumbers}
    \cup {<<a, Blank, w, Blank, b>> :
              a \in DateNumbers, w \in DateWords, b \in DateNumbers}
    \cup {<<w, Blank, a>> : w \in DateWords, a \in DateNumbers}
    \cup {<<w>> : w \in DateWords}
    \cup {<<>>}

DateInit == \E text \in DateTexts : parseSt = Drawn("parse_date", text)

EvalDate ==
    /\ parseSt.fn = "parse_date"
    /\ ~parseSt.done
    /\ parseSt' = [parseSt EXCEPT !.done = TRUE, !.out = parse_date(parseSt.in)]

DateNext == EvalDate /\ UNCHANGED <<scoreSt, flagSt, files, proc, aux>>

(***************************************************************************)
(* The CSV files.  A line is the header row or a data row; a data row      *)
(* carries the invocation and the candidate it was written for.  fmt is    *)
(* the list of field names the line was written with.                      *)
(***************************************************************************)
Header(fmt) ==
    [kind |-> "header", fmt |-> fmt, run |-> 0, cand |-> 0, fields |-> <<>>]
Row(fmt, r, c) ==
    [kind |-> "row", fmt |-> fmt, run |-> r, cand |-> c, fields |-> <<>>]

IsRow(line) == line.kind = "row"
Lines(file) == IF file = None THEN <<>> ELSE Val(file)
RowsOf(file) == SelectSeq(Lines(file), IsRow)

\* supplier_validator.py:27, the fallback RateLimitConfig
MAX_RETRIES == 3
\* supplier_validator.py:36, the base of the retry delay, in seconds
RetryBase == 5
\* the ceilings of the retry delay a configuration can set, in seconds
RetryCeilings == {10, 60}

\* rate_limit_config.py, RateLimitConfig.get_retry_delay: exponential backoff
\* (base * 2^attempt) capped at the configured ceiling
get_retry_delay(attempt, limit) == Min(RetryBase * 2^attempt, limit)

\* validate_suppliers_complete.py main: the cooldown after every 20th product
\* and the user-agent rotation after every 5th
CooldownEvery == 20
RotateEvery == 5

(***************************************************************************)
(* What a candidate awaits and requests, in the order it does.             *)
(***************************************************************************)
\* await asyncio.sleep(RateLimitConfig.get_random_delay())
Delay == [ev |-> "delay", d |-> 0, page |-> "none"]
\* await asyncio.sleep(retry_delay)
RetrySleep(d) == [ev |-> "retry", d |-> d, page |-> "none"]
\* await page.goto(...)
Nav(page) == [ev |-> "nav", d |-> 0, page |-> page]
\* how an attempt of find_aliexpress_equivalent ended: "error" when its try
\* block raised, "nolink" when no link was usable, "found" when one was
Result(r) == [ev |-> "result", d |-> 0, page |-> r]

\* the browser of a process
NoSession == [open |-> FALSE, launches |-> 0, closes |-> 0]
Launched == [open |-> TRUE, launches |-> 1, closes |-> 0]
Closed(b) == [b EXCEPT !.open = FALSE, !.closes = @ + 1]

(***************************************************************************)
(* What the pages can show.  scrape_aliexpress_store fills the fields it   *)
(* finds and records a scraping error when anything raises.                *)
(***************************************************************************)
StandardShipping == <<Word("AliExpress"), Word("Standard"), Word("Shipping")>>
CJExpressShipping == <<Word("CJ"), Word("Express"), Word("Shipping")>>

AliPages ==
    {Profile(Some(730), Some(9800), Some(StandardShipping)),
     Profile(Some(183), Some(9800), Some(StandardShipping)),
     Profile(None, None, None)}

\* the hard-coded profile of scrape_cj_dropshipping_store
CJDefault == Profile(Some(4000), Some(9800), Some(CJExpressShipping))

CJPages ==
    {CJDefault, [CJDefault EXCEPT !.shipping_method = Some(<<Num(45), Word("days")>>)]}

ScrapeError == "Scraping error"

\* what scrape_aliexpress_store holds when something raised: the shipping
\* method is the last field it sets and nothing can raise once it is set
Interrupted(page) == [page EXCEPT !.shipping_method = None]

Scraped(page, error) ==
    [store_open_date |-> page.store_open_date,
     feedback_percentage |-> page.feedback_percentage,
     shipping_method |-> page.shipping_method,
     red_flags |-> IF error THEN <<ScrapeError>> ELSE <<>>]

Running == pc \notin {"idle", "done", "crashed"}
Validating == prog \in {"complete", "validate_all"}

PipeInit ==
    /\ ledger = None
    /\ equivalents = None
    /\ prog = "none"
    /\ pc = "idle"
    /\ i = 0
    /\ n = 0
    /\ url = "none"
    /\ retry_count = 0
    /\ store_info = None
    /\ validated_suppliers = <<>>
    /\ red_flags = <<>>
    /\ file_exists = FALSE
    /\ buf = <<>>
    /\ run = 0
    /\ appended = <<>>
    /\ attempted = <<>>
    /\ proxy = FALSE
    /\ ceiling = 0
    /\ session = NoSession
    /\ origin = "none"
    /\ path = <<>>
    /\ net = <<>>
    /\ pause = "none"
    /\ rotated = FALSE
    /\ requests = 0

\* a process starts and launches its browser
Fresh(p, count, at) ==
    /\ session' = Launched
    /\ origin' = "none"
    /\ path' = <<>>
    /\ net' = <<>>
    /\ pause' = "none"
    /\ rotated' = FALSE
    /\ requests' = 0
    /\ pc = "idle"
    /\ prog' = p
    /\ pc' = at
    /\ i' = 1
    /\ n' = count
    /\ url' = "none"
    /\ retry_count' = 0
    /\ store_info' = None
    /\ validated_suppliers' = <<>>
    /\ red_flags' = <<>>
    /\ file_exists' = FALSE
    /\ buf' = <<>>
    /\ run' = run + 1
    /\ appended' = <<>>
    /\ attempted' = <<>>

\* validate_suppliers_complete.py main: the products of potential_winners.csv
Launch(count) ==
    /\ Fresh("complete", count, "loop")
    /\ proxy' \in BOOLEAN
    /\ ceiling' \in RetryCeilings
    /\ UNCHANGED files

StartComplete == Launch(NumCand)

\* the same with a batch long enough for the cooldown
StartBatch == \E count \in 1..MaxBatch : Launch(count)

\* the navigations one product can cost, sampled: one (a search without a
\* usable link, a CJ product page) or two (a product page and its store page)
NavCounts == {1, 2}

\* the try block of the loop body as the pacing sees it: the product is
\* processed, which issues some navigations
ProcessProduct ==
    /\ prog = "complete"
    /\ pc = "loop"
    /\ i <= n
    /\ \E navs \in NavCounts : requests' = requests + navs
    /\ pc' = "next"
    /\ UNCHANGED <<files, prog, i, n, url, retry_count, store_info,
                   validated_suppliers, red_flags, file_exists, buf, run, appended, attempted>>
    /\ UNCHANGED <<conf, session, story, pause, rotated>>

\* supplier_validator.py main -> validate_all_products: the products of
\* potential_winners.csv with an AliExpress or CJ Dropshipping URL
StartValidateAll ==
    /\ Fresh("validate_all", NumCand, "loop")
    /\ UNCHANGED <<files, conf>>

\* every product sent through the equivalence search
StartCandidate_searchall ==
    /\ Validating
    /\ pc = "loop"
    /\ i <= n
    /\ \E kind \in IF prog = "complete" THEN {"amazon", "aliexpress", "cj"}
                   ELSE {"aliexpress", "cj"} :
          /\ url' = kind
          /\ origin' = kind
          /\ pc' = "find"
          /\ path' = <<"Discovered", "EquivalenceSearch">>
    /\ net' = <<>>
    /\ attempted' = Append(attempted, i)
    /\ retry_count' = 0
    /\ UNCHANGED <<conf, session, pace>>
    /\ UNCHANGED <<files, prog, i, n, store_info, validated_suppliers, red_flags,
                   file_exists, buf, run, appended>>

\* the for loop of main / validate_all_products takes the next product
StartCandidate ==
    /\ Validating
    /\ pc = "loop"
    /\ i <= n
    /\ \E kind \in IF prog = "complete" THEN {"amazon", "aliexpress", "cj"}
                   ELSE {"aliexpress", "cj"} :
          /\ url' = kind
          /\ origin' = kind
          /\ pc' = IF kind = "amazon" THEN "find" ELSE "validate"
          /\ path' = IF kind = "amazon" THEN <<"Discovered", "EquivalenceSearch">>
                      ELSE <<"Discovered">>
    /\ net' = <<>>
    /\ attempted' = Append(attempted, i)
    /\ retry_count' = 0
    /\ UNCHANGED <<conf, session, pace>>
    /\ UNCHANGED <<files, prog, i, n, store_info, validated_suppliers, red_flags,
                   file_exists, buf, run, appended>>

\* the search URL returned once the retries are exhausted
FindNavError_searchurl ==
    /\ pc = "find"
    /\ IF retry_count < MAX_RETRIES
       THEN /\ retry_count' = retry_count + 1
            /\ pc' = "find"
            /\ net' = net \o <<Delay, Nav("search"), Result("error"),
                                RetrySleep(get_retry_delay(retry_count, ceiling))>>
            /\ path' = path
       ELSE /\ retry_count' = retry_count
            /\ pc' = "eq_open"
            /\ net' = net \o <<Delay, Nav("search"), Result("error")>>
            /\ path' = Append(path, "Exhausted")
    /\ requests' = requests + 1
    /\ UNCHANGED <<conf, session, origin, pause, rotated>>
    /\ UNCHANGED <<files, prog, i, n, url, store_info, validated_suppliers,
                   red_flags, file_exists, buf, run, appended, attempted>>

\* the retry allowed while retry_count <= MAX_RETRIES
FindNavError_onemore ==
    /\ pc = "find"
    /\ IF retry_count <= MAX_RETRIES
       THEN /\ retry_count' = retry_count + 1
            /\ pc' = "find"
            /\ net' = net \o <<Delay, Nav("search"), Result("error"),
                                RetrySleep(get_retry_delay(retry_count, ceiling))>>
            /\ path' = path
       ELSE /\ retry_count' = retry_count
            /\ pc' = "next"
            /\ net' = net \o <<Delay, Nav("search"), Result("error")>>
            /\ path' = Append(path, "Exhausted")
    /\ requests' = requests + 1
    /\ UNCHANGED <<conf, session, origin, pause, rotated>>
    /\ UNCHANGED <<files, prog, i, n, url, store_info, validated_suppliers,
                   red_flags, file_exists, buf, run, appended, attempted>>

\* the retry delay of the attempt to come
FindNavError_nextattempt ==
    /\ pc = "find"
    /\ IF retry_count < MAX_RETRIES
       THEN /\ retry_count' = retry_count + 1
            /\ pc' = "find"
            /\ net' = net \o <<Delay, Nav("search"), Result("error"),
                                RetrySleep(get_retry_delay(retry_count + 1, ceiling))>>
            /\ path' = path
       ELSE /\ retry_count' = retry_count
            /\ pc' = "next"
            /\ net' = net \o <<Delay, Nav("search"), Result("error")>>
            /\ path' = Append(path, "Exhausted")
    /\ requests' = requests + 1
    /\ UNCHANGED <<conf, session, origin, pause, rotated>>
    /\ UNCHANGED <<files, prog, i, n, url, store_info, validated_suppliers,
                   red_flags, file_exists, buf, run, appended, attempted>>

\* find_aliexpress_equivalent: page.goto (or anything after it) raises
FindNavError ==
    /\ pc = "find"
    /\ IF retry_count < MAX_RETRIES
       THEN /\ retry_count' = retry_count + 1
            /\ pc' = "find"
            /\ net' = net \o <<Delay, Nav("search"), Result("error"),
                                RetrySleep(get_retry_delay(retry_count, ceiling))>>
            /\ path' = path
       ELSE /\ retry_count' = retry_count
            /\ pc' = "next"
            /\ net' = net \o <<Delay, Nav("search"), Result("error")>>
            /\ path' = Append(path, "Exhausted")
    /\ requests' = requests + 1
    /\ UNCHANGED <<conf, session, origin, pause, rotated>>
    /\ UNCHANGED <<files, prog, i, n, url, store_info, validated_suppliers,
                   red_flags, file_exists, buf, run, appended, attempted>>

\* the search without a usable link retried like a failed navigation
FindNoLink_retry ==
    /\ pc = "find"
    /\ IF retry_count < MAX_RETRIES
       THEN /\ retry_count' = retry_count + 1
            /\ pc' = "find"
            /\ net' = net \o <<Delay, Nav("search"), Result("nolink"),
                                RetrySleep(get_retry_delay(retry_count, ceiling))>>
            /\ path' = path
       ELSE /\ retry_count' = retry_count
            /\ pc' = "next"
            /\ net' = net \o <<Delay, Nav("search"), Result("nolink")>>
            /\ path' = Append(path, "NotFound")
    /\ requests' = requests + 1
    /\ UNCHANGED <<conf, session, origin, pause, rotated>>
    /\ UNCHANGED <<files, prog, i, n, url, store_info, validated_suppliers,
                   red_flags, file_exists, buf, run, appended, attempted>>

\* find_aliexpress_equivalent: the page loads and has no usable product link
FindNoLink ==
    /\ pc = "find"
    /\ pc' = "next"
    /\ net' = net \o <<Delay, Nav("search"), Result("nolink")>>
    /\ path' = Append(path, "NotFound")
    /\ requests' = requests + 1
    /\ UNCHANGED <<conf, session, origin, pause, rotated>>
    /\ UNCHANGED <<files, prog, i, n, url, retry_count, store_info,
                   validated_suppliers, red_flags, file_exists, buf, run, appended, attempted>>

\* the link handed to the validation without being logged
FindFound_nolog ==
    /\ pc = "find"
    /\ \E kind \in {"aliexpress", "other"} : url' = kind
    /\ pc' = "validate"
    /\ net' = net \o <<Delay, Nav("search"), Result("found")>>
    /\ requests' = requests + 1
    /\ UNCHANGED <<conf, session, origin, path, pause, rotated>>
    /\ UNCHANGED <<files, prog, i, n, retry_count, store_info,
                   validated_suppliers, red_flags, file_exists, buf, run, appended, attempted>>

\* find_aliexpress_equivalent returns the first usable link;
\* process_amazon_product goes on to append_equivalent
FindFound ==
    /\ pc = "find"
    /\ \E kind \in {"aliexpress", "other"} : url' = kind
    /\ pc' = "eq_open"
    /\ net' = net \o <<Delay, Nav("search"), Result("found")>>
    /\ requests' = requests + 1
    /\ UNCHANGED <<conf, session, origin, path, pause, rotated>>
    /\ UNCHANGED <<files, prog, i, n, retry_count, store_info,
                   validated_suppliers, red_flags, file_exists, buf, run, appended, attempted>>

\* append_equivalent: os.path.exists, then open(..., "a")
AppendEquivalentOpen ==
    /\ UNCHANGED aux
    /\ pc = "eq_open"
    /\ file_exists' = (equivalents # None)
    /\ equivalents' = Some(Lines(equivalents))
    /\ buf' = <<>>
    /\ pc' = "eq_write"
    /\ UNCHANGED <<ledger, prog, i, n, url, retry_count, store_info,
                   validated_suppliers, red_flags, run, appended, attempted>>

\* append_equivalent: writeheader if the file did not exist, writerow
AppendEquivalentWrite ==
    /\ UNCHANGED aux
    /\ pc = "eq_write"
    /\ buf' = (IF file_exists THEN <<>> ELSE <<Header("validator")>>)
                 \o <<Row("validator", run, i)>>
    /\ pc' = "eq_close"
    /\ UNCHANGED <<files, prog, i, n, url, retry_count, store_info,
                   validated_suppliers, red_flags, file_exists, run, appended, attempted>>

\* append_equivalent: leaving the with block flushes and closes the file
AppendEquivalentClose ==
    /\ UNCHANGED aux
    /\ pc = "eq_close"
    /\ equivalents' = Some(Lines(equivalents) \o buf)
    /\ buf' = <<>>
    /\ pc' = "validate"
    /\ UNCHANGED <<ledger, prog, i, n, url, retry_count, store_info,
                   validated_suppliers, red_flags, file_exists, run, appended, attempted>>

\* validate_product: the URL is of neither platform
ValidateNotSupplier ==
    /\ pc = "validate"
    /\ url \notin {"aliexpress", "cj"}
    /\ pc' = "next"
    /\ path' = Append(path, "NotSupplier")
    /\ UNCHANGED <<conf, session, origin, net, pace>>
    /\ UNCHANGED <<files, prog, i, n, url, retry_count, store_info,
                   validated_suppliers, red_flags, file_exists, buf, run, appended, attempted>>

\* the exception of the scrape let out of scrape_aliexpress_store
ScrapeAliExpress_raises ==
    /\ pc = "validate"
    /\ url = "aliexpress"
    /\ \E page \in AliPages, error \in BOOLEAN :
          /\ store_info' = IF error THEN None ELSE Some(Scraped(page, FALSE))
          /\ pc' = IF error THEN "next" ELSE "check"
    /\ \E store_url \in BOOLEAN :
          /\ net' = net \o <<Delay, Nav("product")>>
                        \o (IF store_url THEN <<Nav("store")>> ELSE <<>>)
          /\ requests' = requests + (IF store_url THEN 2 ELSE 1)
    /\ path' = Append(path, "StoreInspection")
    /\ UNCHANGED <<conf, session, origin, pause, rotated>>
    /\ UNCHANGED <<files, prog, i, n, url, retry_count, validated_suppliers,
                   red_flags, file_exists, buf, run, appended, attempted>>

\* validate_product -> scrape_aliexpress_store
ScrapeAliExpress ==
    /\ pc = "validate"
    /\ url = "aliexpress"
    /\ \E page \in AliPages, error \in BOOLEAN :
          store_info' = Some(Scraped(IF error THEN Interrupted(page) ELSE page,
                                     error))
    /\ \E store_url \in BOOLEAN :
          /\ net' = net \o <<Delay, Nav("product")>>
                        \o (IF store_url THEN <<Nav("store")>> ELSE <<>>)
          /\ requests' = requests + (IF store_url THEN 2 ELSE 1)
    /\ path' = Append(path, "StoreInspection")
    /\ pc' = "check"
    /\ UNCHANGED <<conf, session, origin, pause, rotated>>
    /\ UNCHANGED <<files, prog, i, n, url, retry_count, validated_suppliers,
                   red_flags, file_exists, buf, run, appended, attempted>>

\* validate_product -> scrape_cj_dropshipping_store
ScrapeCJ ==
    /\ pc = "validate"
    /\ url = "cj"
    /\ \E page \in CJPages, error \in BOOLEAN :
          store_info' = Some(Scraped(page, error))
    /\ net' = net \o <<Delay, Nav("product")>>
    /\ requests' = requests + 1
    /\ path' = Append(path, "StoreInspection")
    /\ pc' = "check"
    /\ UNCHANGED <<conf, session, origin, pause, rotated>>
    /\ UNCHANGED <<files, prog, i, n, url, retry_count, validated_suppliers,
                   red_flags, file_exists, buf, run, appended, attempted>>

\* the record validate_product keeps of the candidate
Record(cand, flags) == [cand |-> cand, red_flags |-> flags]

\* store_info as validate_product completes it: the flags of check_red_flags
\* replace those of the scraper, and the age and the shipping days are added
Checked(info, flags) ==
    [store_open_date |-> info.store_open_date,
     feedback_percentage |-> info.feedback_percentage,
     shipping_method |-> info.shipping_method,
     red_flags |-> flags,
     store_age_years |-> calculate_store_age_years(info.store_open_date),
     shipping_days |-> parse_shipping_days(info.shipping_method)]

\* the field written for a value that is missing or falsy
NA == None
\* f"{v:.1f}" of a value kept in 1/unit: the value in tenths, rounded
Format1(v, unit) == (v * 20 + unit) \div (2 * unit)

\* the fields append_validated_supplier writes that depend on the store
RowFields(supplier) ==
    [store_age_years |->
         IF supplier.store_age_years # None /\ Val(supplier.store_age_years) # 0
         THEN Some(Format1(Val(supplier.store_age_years), OneYear)) ELSE NA,
     store_open_date |->
         IF supplier.store_open_date # None THEN supplier.store_open_date ELSE NA,
     feedback_percentage |->
         IF supplier.feedback_percentage # None
            /\ Val(supplier.feedback_percentage) # 0
         THEN Some(Format1(Val(supplier.feedback_percentage), 100)) ELSE NA,
     shipping_days |-> supplier.shipping_days]

SupplierRow(r, c, supplier) ==
    [Row("supplier", r, c) EXCEPT !.fields = RowFields(supplier)]

\* the disposition decided on the flags the scraper recorded
RedFlagCheck_scrapeflags ==
    /\ UNCHANGED <<conf, session, origin, net, pace>>
    /\ pc = "check"
    /\ LET flags == check_red_flags(Val(store_info))
       IN  IF Val(store_info).red_flags # <<>>
           THEN /\ red_flags' = Append(red_flags, Record(i, flags))
                /\ validated_suppliers' = validated_suppliers
                /\ path' = path \o <<"RedFlagCheck", "RedFlagged">>
                /\ pc' = "next"
                /\ store_info' = None
           ELSE /\ validated_suppliers' = Append(validated_suppliers, Record(i, flags))
                /\ red_flags' = red_flags
                /\ path' = path \o <<"RedFlagCheck", "Validated">>
                /\ pc' = "vs_open"
                /\ store_info' = Some(Checked(Val(store_info), flags))
    /\ UNCHANGED <<files, prog, i, n, url, retry_count, file_exists, buf, run,
                   appended, attempted>>

\* the validated supplier is kept in memory and not checkpointed
RedFlagCheck_nocheckpoint ==
    /\ UNCHANGED <<conf, session, origin, net, pace>>
    /\ pc = "check"
    /\ LET flags == check_red_flags(Val(store_info))
       IN  IF flags # <<>>
           THEN /\ red_flags' = Append(red_flags, Record(i, flags))
                /\ validated_suppliers' = validated_suppliers
                /\ path' = path \o <<"RedFlagCheck", "RedFlagged">>
           ELSE /\ validated_suppliers' = Append(validated_suppliers, Record(i, flags))
                /\ red_flags' = red_flags
                /\ path' = path \o <<"RedFlagCheck", "Validated">>
    /\ pc' = "next"
    /\ store_info' = None
    /\ UNCHANGED <<files, prog, i, n, url, retry_count, file_exists, buf, run,
                   appended, attempted>>

\* validate_product: check_red_flags, then the disposition
RedFlagCheck ==
    /\ UNCHANGED <<conf, session, origin, net, pace>>
    /\ pc = "check"
    /\ LET flags == check_red_flags(Val(store_info))
       IN  IF flags # <<>>
           THEN /\ red_flags' = Append(red_flags, Record(i, flags))
                /\ validated_suppliers' = validated_suppliers
                /\ path' = path \o <<"RedFlagCheck", "RedFlagged">>
                /\ pc' = "next"
                /\ store_info' = None
           ELSE /\ validated_suppliers' = Append(validated_suppliers, Record(i, flags))
                /\ red_flags' = red_flags
                /\ path' = path \o <<"RedFlagCheck", "Validated">>
                /\ pc' = "vs_open"
                /\ store_info' = Some(Checked(Val(store_info), flags))
    /\ UNCHANGED <<files, prog, i, n, url, retry_count, file_exists, buf, run,
                   appended, attempted>>

\* the file opened with mode 'w'
AppendSupplierOpen_truncate ==
    /\ UNCHANGED aux
    /\ pc = "vs_open"
    /\ file_exists' = (ledger # None)
    /\ ledger' = Some(<<>>)
    /\ buf' = <<>>
    /\ pc' = "vs_write"
    /\ UNCHANGED <<equivalents, prog, i, n, url, retry_count, store_info,
                   validated_suppliers, red_flags, run, appended, attempted>>

\* append_validated_supplier: os.path.exists, then open(..., 'a')
AppendSupplierOpen ==
    /\ UNCHANGED aux
    /\ pc = "vs_open"
    /\ file_exists' = (ledger # None)
    /\ ledger' = Some(Lines(ledger))
    /\ buf' = <<>>
    /\ pc' = "vs_write"
    /\ UNCHANGED <<equivalents, prog, i, n, url, retry_count, store_info,
                   validated_suppliers, red_flags, run, appended, attempted>>

\* the row written in the header branch and again after it
AppendSupplierWrite_twice ==
    /\ UNCHANGED aux
    /\ pc = "vs_write"
    /\ buf' = (IF file_exists THEN <<>>
               ELSE <<Header("supplier"), SupplierRow(run, i, Val(store_info))>>)
                 \o <<SupplierRow(run, i, Val(store_info))>>
    /\ store_info' = None
    /\ pc' = "vs_close"
    /\ UNCHANGED <<files, prog, i, n, url, retry_count,
                   validated_suppliers, red_flags, file_exists, run, appended, attempted>>

\* append_validated_supplier: writeheader if the file did not exist, writerow
AppendSupplierWrite ==
    /\ UNCHANGED aux
    /\ pc = "vs_write"
    /\ buf' = (IF file_exists THEN <<>> ELSE <<Header("supplier")>>)
                 \o <<SupplierRow(run, i, Val(store_info))>>
    /\ store_info' = None
    /\ pc' = "vs_close"
    /\ UNCHANGED <<files, prog, i, n, url, retry_count,
                   validated_suppliers, red_flags, file_exists, run, appended, attempted>>

\* append_validated_supplier: leaving the with block flushes and closes the file
AppendSupplierClose ==
    /\ UNCHANGED aux
    /\ pc = "vs_close"
    /\ ledger' = Some(Lines(ledger) \o buf)
    /\ buf' = <<>>
    /\ appended' = Append(appended, i)
    /\ attempted' = attempted
    /\ pc' = "next"
    /\ UNCHANGED <<equivalents, prog, i, n, url, retry_count, store_info,
                   validated_suppliers, red_flags, file_exists, run>>

\* the same product taken again
NextCandidate_again ==
    /\ Validating
    /\ pc = "next"
    /\ pause' = IF i >= n THEN "none"
                ELSE IF prog # "complete" THEN "fixed"
                ELSE IF i % CooldownEvery = 0 THEN "cooldown"
                ELSE "delay"
    /\ rotated' = (prog = "complete" /\ ~proxy /\ i % RotateEvery = 0)
    /\ requests' = IF rotated' THEN 0 ELSE requests
    /\ i' = i
    /\ pc' = "loop"
    /\ UNCHANGED <<conf, session, story>>
    /\ UNCHANGED <<files, prog, n, url, retry_count, store_info,
                   validated_suppliers, red_flags, file_exists, buf, run, appended, attempted>>

\* the cooldown awaited after the last product too
NextCandidate_cooldownlast ==
    /\ Validating
    /\ pc = "next"
    /\ pause' = IF prog # "complete" THEN (IF i >= n THEN "none" ELSE "fixed")
                ELSE IF i % CooldownEvery = 0 THEN "cooldown"
                ELSE IF i >= n THEN "none"
                ELSE "delay"
    /\ rotated' = (prog = "complete" /\ ~proxy /\ i % RotateEvery = 0)
    /\ requests' = IF rotated' THEN 0 ELSE requests
    /\ i' = i + 1
    /\ pc' = "loop"
    /\ UNCHANGED <<conf, session, story>>
    /\ UNCHANGED <<files, prog, n, url, retry_count, store_info,
                   validated_suppliers, red_flags, file_exists, buf, run, appended, attempted>>

\* the user agent rotated behind a proxy too
NextCandidate_rotateproxy ==
    /\ Validating
    /\ pc = "next"
    /\ pause' = IF i >= n THEN "none"
                ELSE IF prog # "complete" THEN "fixed"
                ELSE IF i % CooldownEvery = 0 THEN "cooldown"
                ELSE "delay"
    /\ rotated' = (prog = "complete" /\ i % RotateEvery = 0)
    /\ requests' = IF rotated' THEN 0 ELSE requests
    /\ i' = i + 1
    /\ pc' = "loop"
    /\ UNCHANGED <<conf, session, story>>
    /\ UNCHANGED <<files, prog, n, url, retry_count, store_info,
                   validated_suppliers, red_flags, file_exists, buf, run, appended, attempted>>

\* the end of the loop body: the cooldown or the delay unless the product
\* was the last, the rotation of the user agent, then the next product
NextCandidate ==
    /\ Validating
    /\ pc = "next"
    /\ pause' = IF i >= n THEN "none"
                ELSE IF prog # "complete" THEN "fixed"
                ELSE IF i % CooldownEvery = 0 THEN "cooldown"
                ELSE "delay"
    /\ rotated' = (prog = "complete" /\ ~proxy /\ i % RotateEvery = 0)
    /\ requests' = IF rotated' THEN 0 ELSE requests
    /\ i' = i + 1
    /\ pc' = "loop"
    /\ UNCHANGED <<conf, session, story>>
    /\ UNCHANGED <<files, prog, n, url, retry_count, store_info,
                   validated_suppliers, red_flags, file_exists, buf, run, appended, attempted>>

\* the browser left open
FinishRun_noclose ==
    /\ Validating
    /\ pc = "loop"
    /\ i > n
    /\ session' = session
    /\ pc' = "done"
    /\ UNCHANGED <<conf, story, pace>>
    /\ UNCHANGED <<files, prog, i, n, url, retry_count, store_info,
                   validated_suppliers, red_flags, file_exists, buf, run, appended, attempted>>

\* the loop is over: browser.close(), save_validated_suppliers prints the summary
FinishRun ==
    /\ Validating
    /\ pc = "loop"
    /\ i > n
    /\ session' = Closed(session)
    /\ pc' = "done"
    /\ UNCHANGED <<conf, story, pace>>
    /\ UNCHANGED <<files, prog, i, n, url, retry_count, store_info,
                   validated_suppliers, red_flags, file_exists, buf, run, appended, attempted>>

\* csv.DictReader over aliexpress_equivalents.csv: the first line gives the
\* field names, whatever it is; the rows with an aliexpress_url follow
EquivalentProducts ==
    LET lines == Lines(equivalents)
    IN  IF lines # <<>> /\ Head(lines).kind = "header"
        THEN Len(RowsOf(Some(Tail(lines))))
        ELSE 0

\* final_validator.py main; without the input file open() raises at once
StartFinal ==
    /\ equivalents # None
    /\ Fresh("final", EquivalentProducts, "f_loop")
    /\ UNCHANGED <<files, conf>>

\* final_validator.py main: validate_product returns the store or None
FinalValidate ==
    /\ pc = "f_loop"
    /\ i <= n
    /\ \E ok \in BOOLEAN :
          validated_suppliers' = IF ok
                                 THEN Append(validated_suppliers, Record(i, <<>>))
                                 ELSE validated_suppliers
    /\ i' = i + 1
    /\ net' = <<Nav("product")>>
    /\ requests' = requests + 1
    /\ UNCHANGED <<conf, session, origin, path, pause, rotated>>
    /\ UNCHANGED <<files, prog, pc, n, url, retry_count, store_info, red_flags,
                   file_exists, buf, run, appended, attempted>>

\* final_validator.py main: nothing validated, nothing written
FinalNothing ==
    /\ pc = "f_loop"
    /\ i > n
    /\ validated_suppliers = <<>>
    /\ session' = Closed(session)
    /\ pc' = "done"
    /\ UNCHANGED <<conf, story, pace>>
    /\ UNCHANGED <<files, prog, i, n, url, retry_count, store_info,
                   validated_suppliers, red_flags, file_exists, buf, run, appended, attempted>>

\* final_validator.py main: open('validated_suppliers.csv', 'w') truncates
FinalSaveOpen ==
    /\ pc = "f_loop"
    /\ i > n
    /\ validated_suppliers # <<>>
    /\ session' = Closed(session)
    /\ UNCHANGED <<conf, story, pace>>
    /\ ledger' = Some(<<>>)
    /\ buf' = <<>>
    /\ pc' = "f_write"
    /\ UNCHANGED <<equivalents, prog, i, n, url, retry_count, store_info,
                   validated_suppliers, red_flags, file_exists, run, appended, attempted>>

\* final_validator.py main: writeheader, writerows
FinalSaveWrite ==
    /\ UNCHANGED aux
    /\ pc = "f_write"
    /\ buf' = <<Header("final")>>
                 \o [k \in 1..Len(validated_suppliers) |->
                        Row("final", run, validated_suppliers[k].cand)]
    /\ pc' = "f_close"
    /\ UNCHANGED <<files, prog, i, n, url, retry_count, store_info,
                   validated_suppliers, red_flags, file_exists, run, appended, attempted>>

\* final_validator.py main: leaving the with block flushes and closes the file
FinalSaveClose ==
    /\ UNCHANGED aux
    /\ pc = "f_close"
    /\ ledger' = Some(Lines(ledger) \o buf)
    /\ buf' = <<>>
    /\ pc' = "done"
    /\ UNCHANGED <<equivalents, prog, i, n, url, retry_count, store_info,
                   validated_suppliers, red_flags, file_exists, run, appended, attempted>>

(***************************************************************************)
(* find_aliexpress_equivalents.py and extract_urls_from_validator.py: the  *)
(* two other writers of aliexpress_equivalents.csv.  Both rewrite the file *)
(* with the same six field names, the last being alternative_urls.         *)
(***************************************************************************)
\* find_aliexpress_equivalents.py main: the Amazon products of
\* potential_winners.csv; output_rows (kept in validated_suppliers) is empty
StartFinder ==
    /\ Fresh("finder", NumCand, "s_loop")
    /\ UNCHANGED <<files, conf>>

\* find_aliexpress_equivalents.py main: one search, a row when it found links
FinderSearch ==
    /\ pc = "s_loop"
    /\ i <= n
    /\ \E found \in BOOLEAN :
          validated_suppliers' = IF found
                                 THEN Append(validated_suppliers, Record(i, <<>>))
                                 ELSE validated_suppliers
    /\ i' = i + 1
    /\ net' = <<Nav("search")>>
    /\ UNCHANGED <<conf, session, origin, path, pace>>
    /\ UNCHANGED <<files, prog, pc, n, url, retry_count, store_info, red_flags,
                   file_exists, buf, run, appended, attempted>>

\* find_aliexpress_equivalents.py main: browser.close() after the loop
FinderClose ==
    /\ pc = "s_loop"
    /\ i > n
    /\ session' = Closed(session)
    /\ pc' = "w_save"
    /\ UNCHANGED <<conf, story, pace>>
    /\ UNCHANGED <<files, prog, i, n, url, retry_count, store_info,
                   validated_suppliers, red_flags, file_exists, buf, run, appended, attempted>>

\* extract_urls_from_validator.py: the products read from
\* potential_winners.csv that have a title, an Amazon URL and a keyword;
\* the script has no browser
StartExtract ==
    /\ pc = "idle"
    /\ prog' = "extract"
    /\ pc' = "w_save"
    /\ i' = 1
    /\ \E count \in 0..NumCand :
          /\ n' = count
          /\ validated_suppliers' = [k \in 1..count |-> Record(k, <<>>)]
    /\ url' = "none"
    /\ retry_count' = 0
    /\ store_info' = None
    /\ red_flags' = <<>>
    /\ file_exists' = FALSE
    /\ buf' = <<>>
    /\ run' = run + 1
    /\ appended' = <<>>
    /\ attempted' = <<>>
    /\ origin' = "none"
    /\ path' = <<>>
    /\ net' = <<>>
    /\ pause' = "none"
    /\ rotated' = FALSE
    /\ requests' = 0
    /\ UNCHANGED <<files, conf, session>>

\* if output_rows: / if products: nothing to write, the file is not touched
LinksNothing ==
    /\ UNCHANGED aux
    /\ pc = "w_save"
    /\ validated_suppliers = <<>>
    /\ pc' = "done"
    /\ UNCHANGED <<files, prog, i, n, url, retry_count, store_info,
                   validated_suppliers, red_flags, file_exists, buf, run, appended, attempted>>

\* open('aliexpress_equivalents.csv', 'w') truncates
LinksSaveOpen ==
    /\ UNCHANGED aux
    /\ pc = "w_save"
    /\ validated_suppliers # <<>>
    /\ equivalents' = Some(<<>>)
    /\ buf' = <<>>
    /\ pc' = "w_write"
    /\ UNCHANGED <<ledger, prog, i, n, url, retry_count, store_info,
                   validated_suppliers, red_flags, file_exists, run, appended, attempted>>

\* writeheader, writerows
LinksSaveWrite ==
    /\ UNCHANGED aux
    /\ pc = "w_write"
    /\ buf' = <<Header("finder")>>
                 \o [k \in 1..Len(validated_suppliers) |->
                        Row("finder", run, validated_suppliers[k].cand)]
    /\ pc' = "w_close"
    /\ UNCHANGED <<files, prog, i, n, url, retry_count, store_info,
                   validated_suppliers, red_flags, file_exists, run, appended, attempted>>

\* leaving the with block flushes and closes the file
LinksSaveClose ==
    /\ UNCHANGED aux
    /\ pc = "w_close"
    /\ equivalents' = Some(Lines(equivalents) \o buf)
    /\ buf' = <<>>
    /\ pc' = "done"
    /\ UNCHANGED <<ledger, prog, i, n, url, retry_count, store_info,
                   validated_suppliers, red_flags, file_exists, run, appended, attempted>>

(***************************************************************************)
(* An error raised while one candidate is processed.  The scrapers and the *)
(* search catch their own; the two appends do not, so an open() that fails *)
(* leaves validate_product / process_amazon_product as an exception.       *)
(***************************************************************************)
\* no try around the loop body: the exception ends the process
AppendRaises_uncaught ==
    /\ Validating
    /\ pc \in {"eq_open", "vs_open"}
    /\ pc' = "crashed"
    /\ path' = path \o <<"Error">>
    /\ store_info' = None
    /\ session' = [session EXCEPT !.open = FALSE]
    /\ UNCHANGED <<conf, origin, net, pace>>
    /\ UNCHANGED <<files, prog, i, n, url, retry_count, validated_suppliers,
                   red_flags, file_exists, buf, run, appended, attempted>>

\* open() raises in append_equivalent or append_validated_supplier: the
\* except of the loop body prints the error and the loop goes on
AppendRaises ==
    /\ Validating
    /\ pc \in {"eq_open", "vs_open"}
    /\ pc' = "next"
    /\ path' = path \o <<"Error">>
    /\ store_info' = None
    /\ session' = session
    /\ UNCHANGED <<conf, origin, net, pace>>
    /\ UNCHANGED <<files, prog, i, n, url, retry_count, validated_suppliers,
                   red_flags, file_exists, buf, run, appended, attempted>>

\* the process dies: its memory and its unflushed writes are gone, the
\* files stay as they are
Crash ==
    /\ Running
    /\ pc' = "crashed"
    /\ session' = [session EXCEPT !.open = FALSE]
    /\ UNCHANGED <<conf, story, pace>>
    /\ url' = "none"
    /\ retry_count' = 0
    /\ store_info' = None
    /\ validated_suppliers' = <<>>
    /\ red_flags' = <<>>
    /\ file_exists' = FALSE
    /\ buf' = <<>>
    /\ UNCHANGED <<files, prog, i, n, run, appended, attempted>>

\* the process has ended and the program is launched again: nothing of the
\* previous process is left but the files
Relaunch ==
    /\ UNCHANGED aux
    /\ pc \in {"done", "crashed"}
    /\ run < MaxRuns
    /\ pc' = "idle"
    /\ UNCHANGED <<files, prog, i, n, url, retry_count, store_info,
                   validated_suppliers, red_flags, file_exists, buf, run, appended, attempted>>

harness == <<scoreSt, flagSt, parseSt>>

\* one invocation of a validation run
Next ==
    \/ StartComplete /\ UNCHANGED harness
    \/ StartValidateAll /\ UNCHANGED harness
    \/ StartCandidate /\ UNCHANGED harness
    \/ FindNavError /\ UNCHANGED harness
    \/ FindNoLink /\ UNCHANGED harness
    \/ FindFound /\ UNCHANGED harness
    \/ AppendEquivalentOpen /\ UNCHANGED harness
    \/ AppendEquivalentWrite /\ UNCHANGED harness
    \/ AppendEquivalentClose /\ UNCHANGED harness
    \/ ValidateNotSupplier /\ UNCHANGED harness
    \/ ScrapeAliExpress /\ UNCHANGED harness
    \/ ScrapeCJ /\ UNCHANGED harness
    \/ RedFlagCheck /\ UNCHANGED harness
    \/ AppendSupplierOpen /\ UNCHANGED harness
    \/ AppendSupplierWrite /\ UNCHANGED harness
    \/ AppendSupplierClose /\ UNCHANGED harness
    \/ NextCandidate /\ UNCHANGED harness
    \/ FinishRun /\ UNCHANGED harness
    \/ Crash /\ UNCHANGED harness

\* any number of invocations of any of the three programs
NextRuns ==
    \/ StartComplete /\ UNCHANGED harness
    \/ StartValidateAll /\ UNCHANGED harness
    \/ StartCandidate /\ UNCHANGED harness
    \/ FindNavError /\ UNCHANGED harness
    \/ FindNoLink /\ UNCHANGED harness
    \/ FindFound /\ UNCHANGED harness
    \/ AppendEquivalentOpen /\ UNCHANGED harness
    \/ AppendEquivalentWrite /\ UNCHANGED harness
    \/ AppendEquivalentClose /\ UNCHANGED harness
    \/ ValidateNotSupplier /\ UNCHANGED harness
    \/ ScrapeAliExpress /\ UNCHANGED harness
    \/ ScrapeCJ /\ UNCHANGED harness
    \/ RedFlagCheck /\ UNCHANGED harness
    \/ AppendSupplierOpen /\ UNCHANGED harness
    \/ AppendSupplierWrite /\ UNCHANGED harness
    \/ AppendSupplierClose /\ UNCHANGED harness
    \/ NextCandidate /\ UNCHANGED harness
    \/ FinishRun /\ UNCHANGED harness
    \/ StartFinal /\ UNCHANGED harness
    \/ FinalValidate /\ UNCHANGED harness
    \/ FinalNothing /\ UNCHANGED harness
    \/ FinalSaveOpen /\ UNCHANGED harness
    \/ FinalSaveWrite /\ UNCHANGED harness
    \/ FinalSaveClose /\ UNCHANGED harness
    \/ Crash /\ UNCHANGED harness
    \/ Relaunch /\ UNCHANGED harness

\* the three writers of aliexpress_equivalents.csv, run in any order
NextLinks ==
    \/ StartComplete /\ UNCHANGED harness
    \/ StartCandidate /\ UNCHANGED harness
    \/ FindNavError /\ UNCHANGED harness
    \/ FindNoLink /\ UNCHANGED harness
    \/ FindFound /\ UNCHANGED harness
    \/ AppendEquivalentOpen /\ UNCHANGED harness
    \/ AppendEquivalentWrite /\ UNCHANGED harness
    \/ AppendEquivalentClose /\ UNCHANGED harness
    \/ ValidateNotSupplier /\ UNCHANGED harness
    \/ ScrapeAliExpress /\ UNCHANGED harness
    \/ ScrapeCJ /\ UNCHANGED harness
    \/ RedFlagCheck /\ UNCHANGED harness
    \/ AppendSupplierOpen /\ UNCHANGED harness
    \/ AppendSupplierWrite /\ UNCHANGED harness
    \/ AppendSupplierClose /\ UNCHANGED harness
    \/ NextCandidate /\ UNCHANGED harness
    \/ FinishRun /\ UNCHANGED harness
    \/ StartFinder /\ UNCHANGED harness
    \/ FinderSearch /\ UNCHANGED harness
    \/ FinderClose /\ UNCHANGED harness
    \/ StartExtract /\ UNCHANGED harness
    \/ LinksNothing /\ UNCHANGED harness
    \/ LinksSaveOpen /\ UNCHANGED harness
    \/ LinksSaveWrite /\ UNCHANGED harness
    \/ LinksSaveClose /\ UNCHANGED harness
    \/ Relaunch /\ UNCHANGED harness

\* one validation run whose process is not killed, with the appends failing
NextLive ==
    \/ StartComplete /\ UNCHANGED harness
    \/ StartValidateAll /\ UNCHANGED harness
    \/ StartCandidate /\ UNCHANGED harness
    \/ FindNavError /\ UNCHANGED harness
    \/ FindNoLink /\ UNCHANGED harness
    \/ FindFound /\ UNCHANGED harness
    \/ AppendEquivalentOpen /\ UNCHANGED harness
    \/ AppendEquivalentWrite /\ UNCHANGED harness
    \/ AppendEquivalentClose /\ UNCHANGED harness
    \/ ValidateNotSupplier /\ UNCHANGED harness
    \/ ScrapeAliExpress /\ UNCHANGED harness
    \/ ScrapeCJ /\ UNCHANGED harness
    \/ RedFlagCheck /\ UNCHANGED harness
    \/ AppendSupplierOpen /\ UNCHANGED harness
    \/ AppendSupplierWrite /\ UNCHANGED harness
    \/ AppendSupplierClose /\ UNCHANGED harness
    \/ AppendRaises /\ UNCHANGED harness
    \/ NextCandidate /\ UNCHANGED harness
    \/ FinishRun /\ UNCHANGED harness

\* the loop of validate_suppliers_complete.py main over a long batch
NextPace ==
    \/ StartBatch /\ UNCHANGED harness
    \/ ProcessProduct /\ UNCHANGED harness
    \/ NextCandidate /\ UNCHANGED harness
    \/ FinishRun /\ UNCHANGED harness

ScoreNext ==
    \/ ScoreDemand /\ UNCHANGED <<flagSt, parseSt, files, proc, aux>>
    \/ ScoreCompetition /\ UNCHANGED <<flagSt, parseSt, files, proc, aux>>
    \/ ScoreRating /\ UNCHANGED <<flagSt, parseSt, files, proc, aux>>

(***************************************************************************)
(* The specifications.                                                     *)
(***************************************************************************)
\* one validation run and its files
Init == ScoreIdle /\ FlagIdle /\ ParseIdle /\ PipeInit
Spec == Init /\ [][Next]_vars
\* the runs of the three programs over the same files, one after another
InitRuns == ScoreIdle /\ FlagIdle /\ ParseIdle /\ PipeInit
SpecRuns == InitRuns /\ [][NextRuns]_vars
\* the writers of the equivalence-links file, one after another
InitLinks == ScoreIdle /\ FlagIdle /\ ParseIdle /\ PipeInit
SpecLinks == InitLinks /\ [][NextLinks]_vars
\* one validation run that is scheduled until it ends: asyncio runs the one
\* coroutine of main to completion, every await of it returns or raises
InitLive == ScoreIdle /\ FlagIdle /\ ParseIdle /\ PipeInit
SpecLive == InitLive /\ [][NextLive]_vars /\ WF_vars(NextLive)
\* the pacing of a long batch
InitPace == ScoreIdle /\ FlagIdle /\ ParseIdle /\ PipeInit
SpecPace == InitPace /\ [][NextPace]_vars
\* the scoring harness
InitScore == ScoreInit /\ FlagIdle /\ ParseIdle /\ PipeInit
SpecScore == InitScore /\ [][ScoreNext]_vars
\* the parser harness on parse_shipping_days
InitShipping == ScoreIdle /\ FlagIdle /\ ShippingInit /\ PipeInit
SpecShipping == InitShipping /\ [][ShippingNext]_vars
\* the parser harness on parse_number
InitNumber == ScoreIdle /\ FlagIdle /\ NumberInit /\ PipeInit
SpecNumber == InitNumber /\ [][NumberNext]_vars
\* the parser harness on deduplicate_products
InitDedupe == ScoreIdle /\ FlagIdle /\ DedupeInit /\ PipeInit
SpecDedupe == InitDedupe /\ [][DedupeNext]_vars
\* the parser harness on parse_date
InitDate == ScoreIdle /\ FlagIdle /\ DateInit /\ PipeInit
SpecDate == InitDate /\ [][DateNext]_vars
\* the red-flag harness
InitFlags == ScoreIdle /\ FlagInit /\ ParseIdle /\ PipeInit
SpecFlags == InitFlags /\ [][FlagNext]_vars

(***************************************************************************)
(* C1: for every demand, competition and rating the opportunity score      *)
(* lies in the closed range [0, 100].                                      *)
(***************************************************************************)
C1_ScoreInRange ==
    /\ scoreSt.cur.score >= 0
    /\ scoreSt.cur.score <= 100

\* the clamp acts: all four components are at their maximum (110 points)
C1_Witness ==
    /\ scoreSt.cur.orders > 10000
    /\ scoreSt.cur.reviews < 50
    /\ scoreSt.cur.rating >= 450
    /\ scoreSt.cur.score = 100

(***************************************************************************)
(* C2: the score is monotonic: with the other two inputs fixed, more       *)
(* demand never lowers it, a higher rating never lowers it, and more       *)
(* competition never raises it.                                            *)
(***************************************************************************)
C2_ScoreMonotonic ==
    LET p == scoreSt.prev
        c == scoreSt.cur
    IN  /\ (p.reviews = c.reviews /\ p.rating = c.rating /\ p.orders <= c.orders)
              => p.score <= c.score
        /\ (p.orders = c.orders /\ p.reviews = c.reviews /\ p.rating <= c.rating)
              => p.score <= c.score
        /\ (p.orders = c.orders /\ p.rating = c.rating /\ p.reviews <= c.reviews)
              => p.score >= c.score

\* competition fell across the sweet-spot boundary and the score hit the clamp
C2_Witness ==
    /\ scoreSt.prev.orders = scoreSt.cur.orders
    /\ scoreSt.prev.rating = scoreSt.cur.rating
    /\ scoreSt.cur.orders > 500
    /\ scoreSt.prev.reviews >= 100
    /\ scoreSt.cur.reviews < 100
    /\ scoreSt.prev.score < 100
    /\ scoreSt.cur.score = 100

(***************************************************************************)
(* C3: the score is min(100, D + C + R + B): D = 10 points per demand      *)
(* threshold (100, 500, 1000, 5000, 10000) exceeded, C = 30/20/10/5/0 for  *)
(* competition below 50/100/500/1000/otherwise, R = 5 points per rating    *)
(* threshold (3.0, 3.5, 4.0, 4.5) reached, B = 10 exactly when demand >    *)
(* 500 and competition < 100.                                              *)
(***************************************************************************)
C3_ScoreFormula ==
    LET c == scoreSt.cur
        D == 10 * Cardinality({t \in {100, 500, 1000, 5000, 10000} : c.orders > t})
        C == CASE c.reviews < 50 -> 30
               [] c.reviews >= 50 /\ c.reviews < 100 -> 20
               [] c.reviews >= 100 /\ c.reviews < 500 -> 10
               [] c.reviews >= 500 /\ c.reviews < 1000 -> 5
               [] OTHER -> 0
        R == 5 * Cardinality({t \in {300, 350, 400, 450} : c.rating >= t})
        B == IF c.orders > 500 /\ c.reviews < 100 THEN 10 ELSE 0
    IN  c.score = Min(100, D + C + R + B)

\* every component is non-zero and the bonus applies, below the clamp
C3_Witness ==
    /\ scoreSt.cur.orders = 501
    /\ scoreSt.cur.reviews = 99
    /\ scoreSt.cur.rating = 300
    /\ scoreSt.cur.score = 55

(***************************************************************************)
(* C4: red-flag evaluation returns exactly the flags whose rule fails,     *)
(* every rule evaluated whatever the others gave: an age flag iff the      *)
(* store age is undeterminable or under one year, a feedback flag iff the  *)
(* feedback is undeterminable or under 95%, a shipping flag iff the        *)
(* shipping estimate is over 30 days.                                      *)
(***************************************************************************)
FlagSet(flags) == {flags[k] : k \in 1..Len(flags)}

C4_ExactFlags ==
    LET info == flagSt.in
        flags == FlagSet(flagSt.out)
        days == info.store_open_date
        fb == info.feedback_percentage
        est == parse_shipping_days(info.shipping_method)
    IN  flagSt.done =>
        /\ AgeUnknown \in flags <=> days = None
        /\ AgeLt1 \in flags <=> (days # None /\ 4 * Val(days) < 1461)
        /\ FeedbackUnknown \in flags <=> fb = None
        /\ FeedbackLt95 \in flags <=> (fb # None /\ Val(fb) < 9500)
        /\ ShippingGt30 \in flags <=> (est # None /\ Val(est) > 30)
        /\ Len(flagSt.out) = Cardinality(flags)

\* the example of the specification: half a year old, 97%, 20 days
C4_Witness ==
    /\ flagSt.done
    /\ flagSt.in = Profile(Some(183), Some(9700), Some(<<Num(20), Word("days")>>))
    /\ flagSt.out = <<AgeLt1>>

(***************************************************************************)
(* The rows a file holds of the invocation that runs, as candidates.       *)
(***************************************************************************)
Cands(records) == [k \in 1..Len(records) |-> records[k].cand]
IsOfThisRun(line) == line.kind = "row" /\ line.run = run
ThisRun(file) == Cands(SelectSeq(Lines(file), IsOfThisRun))
Elems(seq) == {seq[k] : k \in 1..Len(seq)}

(***************************************************************************)
(* C5: a candidate that reaches RedFlagCheck becomes Validated iff the     *)
(* flag set the rules give is empty and RedFlagged iff it holds a flag;    *)
(* it never becomes both or neither.                                       *)
(***************************************************************************)
C5_Disposition ==
    [][(pc = "check" /\ pc' # "crashed") =>
          LET flags == check_red_flags(Val(store_info))
              becameValidated == validated_suppliers' # validated_suppliers
              becameRedFlagged == red_flags' # red_flags
          IN  /\ becameValidated <=> flags = <<>>
              /\ becameRedFlagged <=> flags # <<>>
              /\ becameValidated =>
                    validated_suppliers' = Append(validated_suppliers, Record(i, flags))
              /\ becameRedFlagged =>
                    red_flags' = Append(red_flags, Record(i, flags))]_vars

\* one candidate of the batch was validated and one was flagged for its age
C5_Witness ==
    /\ Len(validated_suppliers) = 1
    /\ Len(red_flags) = 1
    /\ validated_suppliers[1].red_flags = <<>>
    /\ red_flags[1].red_flags = <<AgeLt1>>

(***************************************************************************)
(* C6, as stated: between two candidates, every candidate that was given   *)
(* a disposition, Validated or RedFlagged, has its record in the ledger.   *)
(***************************************************************************)
BetweenCandidates == Validating /\ pc \in {"next", "loop", "done"}

C7_AtMostOneRecord ==
    \A c \in 1..NumCand :
        Cardinality({k \in 1..Len(ThisRun(ledger)) : ThisRun(ledger)[k] = c}) <= 1

\* the record of a candidate whose equivalence search was retried is in the
\* ledger, once
C7_Witness ==
    /\ pc = "next"
    /\ retry_count > 0
    /\ i \in Elems(ThisRun(ledger))

(***************************************************************************)
(* C8: whenever the process dies, the ledger holds exactly the records     *)
(* whose append had returned: all of them, and nothing of the candidate    *)
(* in flight.                                                              *)
(***************************************************************************)
C8_CrashKeepsAppended ==
    Validating => ThisRun(ledger) = appended

\* the process died while the second candidate was in flight, after the
\* record of the first was appended
C8_Witness ==
    /\ pc = "crashed"
    /\ i = 2
    /\ appended = <<1>>
    /\ ThisRun(ledger) = <<1>>

(***************************************************************************)
(* C9: a ledger file that holds a data row holds the header row exactly    *)
(* once, as its first line, whatever invocations crashed before.           *)
(***************************************************************************)
HeaderOnce(file) ==
    RowsOf(file) # <<>> =>
        /\ Head(Lines(file)).kind = "header"
        /\ Cardinality({k \in 1..Len(Lines(file)) : Lines(file)[k].kind = "header"}) = 1

C9_HeaderExactlyOnce == HeaderOnce(ledger)

(***************************************************************************)
(* C10: the ledger is append-only: no step of any program removes or       *)
(* overwrites a row it holds.                                              *)
(***************************************************************************)
C10_AppendOnly ==
    [][\A k \in 1..Len(RowsOf(ledger)) :
          /\ k <= Len(RowsOf(ledger'))
          /\ RowsOf(ledger')[k] = RowsOf(ledger)[k]]_vars

(***************************************************************************)
(* C15 as stated: in a batch run the loop end after every 20th processed   *)
(* candidate (20, 40, ...) awaits the 60-second cooldown.                  *)
(***************************************************************************)
LoopEnd == pc = "next" /\ pc' = "loop"

C15_CooldownEveryM ==
    [][(prog = "complete" /\ LoopEnd /\ i % CooldownEvery = 0)
          => pause' = "cooldown"]_vars

(***************************************************************************)
(* C15 amended: in a run of validate_suppliers_complete.py the loop end    *)
(* awaits the cooldown exactly after the candidates 20, 40, ... that are   *)
(* not the last of the batch.                                              *)
(***************************************************************************)
C15_CooldownBetween ==
    [][(prog = "complete" /\ LoopEnd)
          => (pause' = "cooldown" <=> (i % CooldownEvery = 0 /\ i < n))]_vars

\* the cooldown awaited after candidate 40 of a batch of 41
C15_Witness ==
    /\ pause = "cooldown"
    /\ pc = "loop"
    /\ i = 2 * CooldownEvery + 1

(***************************************************************************)
(* C16 as stated: without a proxy the user agent is rotated every 5        *)
(* requests, i.e. at the loop end where 5 navigations were issued since    *)
(* the last rotation; with a proxy it is never rotated.                    *)
(***************************************************************************)
C16_RotateEveryNRequests ==
    [][LoopEnd => (rotated' <=> (~proxy /\ requests >= RotateEvery))]_vars

(***************************************************************************)
(* C16 amended: without a proxy the user agent is rotated at the loop end  *)
(* of every 5th candidate (5, 10, ..., the last of the batch included),    *)
(* however many requests were issued; with a proxy it is never rotated.    *)
(***************************************************************************)
C16_RotateEveryNCandidates ==
    [][(prog = "complete" /\ LoopEnd)
          => (rotated' <=> (~proxy /\ i % RotateEvery = 0))]_vars

\* the rotation after the 5th candidate, which was the last of the batch
C16_Witness ==
    /\ rotated
    /\ ~proxy
    /\ n = RotateEvery
    /\ i = n + 1
    /\ requests = 0
(***************************************************************************)
(* The candidate in progress and what became of it.                        *)
(***************************************************************************)
Last(seq) == seq[Len(seq)]
Terminal == {"Validated", "RedFlagged", "Exhausted", "NotFound", "NotSupplier"}
\* the candidate i has been taken from the batch and the loop has not moved on
InCandidate == Validating /\ pc \notin {"idle", "loop", "done", "crashed"}
Recorded == Elems(Cands(validated_suppliers)) \cup Elems(Cands(red_flags))
IsSearch(e) == e.ev = "nav" /\ e.page = "search"
IsRetry(e) == e.ev = "retry"
Searches == SelectSeq(net, IsSearch)
Retries == SelectSeq(net, IsRetry)

(***************************************************************************)
(* C11: a candidate whose equivalence search exhausted its retries has no  *)
(* record in either collection, no ledger row and no equivalence-link row, *)
(* and the process is at the end of the loop body, from where the batch    *)
(* goes on.                                                                *)
(***************************************************************************)
C11_ExhaustedDropped ==
    (InCandidate /\ "Exhausted" \in Elems(path))
        => /\ pc = "next"
           /\ i \notin Recorded
           /\ i \notin Elems(ThisRun(ledger))
           /\ i \notin Elems(ThisRun(equivalents))

\* the first candidate exhausted its retries and the second one was taken
C11_Witness ==
    /\ pc = "loop"
    /\ i = 2
    /\ Last(path) = "Exhausted"
    /\ Recorded = {}
    /\ equivalents = None

(***************************************************************************)
(* C12: for one candidate the search is retried at most MAX_RETRIES times, *)
(* so navigates at most MAX_RETRIES + 1 times, and the search that failed  *)
(* MAX_RETRIES + 1 times ends as a search that found nothing.              *)
(***************************************************************************)
C12_RetriesCapped ==
    /\ retry_count <= MAX_RETRIES
    /\ Len(Retries) <= MAX_RETRIES
    /\ Len(Searches) <= MAX_RETRIES + 1
    /\ (InCandidate /\ "Exhausted" \in Elems(path))
          => /\ Len(Searches) = MAX_RETRIES + 1
             /\ pc = "next"

\* the search that navigated MAX_RETRIES + 1 times and gave up
C12_Witness ==
    /\ pc = "next"
    /\ Last(path) = "Exhausted"
    /\ Len(Searches) = MAX_RETRIES + 1
    /\ Len(Retries) = MAX_RETRIES

C14_DelayBeforeNavigation ==
    \A k \in 1..Len(net) :
        net[k].ev = "nav"
            => \E j \in 1..(k - 1) :
                  /\ net[j].ev \in {"delay", "retry"}
                  /\ \A m \in (j + 1)..(k - 1) : net[m].ev # "nav"
(***************************************************************************)
(* C17: a candidate with an AliExpress or CJ Dropshipping URL goes from    *)
(* Discovered to StoreInspection, searches nothing and gets no             *)
(* equivalence-link row; any other candidate goes from Discovered to       *)
(* EquivalenceSearch and is inspected only once a link was found and       *)
(* logged.                                                                 *)
(***************************************************************************)
C17_Routing ==
    InCandidate =>
        /\ path[1] = "Discovered"
        /\ origin \in {"aliexpress", "cj"}
              => /\ Len(path) >= 2 => path[2] = "StoreInspection"
                 /\ Searches = <<>>
                 /\ i \notin Elems(ThisRun(equivalents))
        /\ origin \notin {"aliexpress", "cj"}
              => /\ Len(path) >= 2 /\ path[2] = "EquivalenceSearch"
                 /\ "StoreInspection" \in Elems(path)
                       => /\ path[3] = "StoreInspection"
                          /\ Searches # <<>>
                          /\ i \in Elems(ThisRun(equivalents))

\* a CJ candidate inspected straight away, in a run that searched for the
\* candidate before it
C17_Witness ==
    /\ pc = "check"
    /\ origin = "cj"
    /\ path = <<"Discovered", "StoreInspection">>
    /\ ThisRun(equivalents) = <<1>>

(***************************************************************************)
(* C18: a candidate that entered StoreInspection is at the red-flag check  *)
(* with its store_info, or has been given its disposition and is in the    *)
(* collection of that disposition; an inspection that raised or found no   *)
(* date or no feedback ends RedFlagged.                                    *)
(***************************************************************************)
C18_InspectedDisposed ==
    (InCandidate /\ "StoreInspection" \in Elems(path))
        => \/ /\ pc = "check"
              /\ store_info # None
              /\ Last(path) = "StoreInspection"
           \/ /\ pc = "next"
              /\ Last(path) = "RedFlagged"
              /\ red_flags # <<>> /\ Last(red_flags).cand = i
           \/ /\ pc \in {"vs_open", "vs_write", "vs_close", "next"}
              /\ Last(path) = "Validated"
              /\ validated_suppliers # <<>> /\ Last(validated_suppliers).cand = i

C18_MissingFlagged ==
    [][(pc = "check" /\ pc' # "crashed"
          /\ (Val(store_info).store_open_date = None
                 \/ Val(store_info).feedback_percentage = None))
         => Last(path') = "RedFlagged"]_vars

C18_BestEffort == []C18_InspectedDisposed /\ C18_MissingFlagged

\* the inspection found neither date nor feedback and the candidate is
\* RedFlagged for its undeterminable age and feedback
C18_Witness ==
    /\ pc = "next"
    /\ Last(path) = "RedFlagged"
    /\ FlagSet(Last(red_flags).red_flags) = {AgeUnknown, FeedbackUnknown}

(***************************************************************************)
(* C19: no candidate is in the validated and red-flagged collections more  *)
(* than once in all, and the collections hold only candidates the loop     *)
(* has taken: those before i, and i once it reached its disposition.       *)
(***************************************************************************)
Disposed == Cands(validated_suppliers) \o Cands(red_flags)

C19_TerminalFinal ==
    Validating =>
        /\ \A j, k \in 1..Len(Disposed) : Disposed[j] = Disposed[k] => j = k
        /\ \A k \in 1..Len(Disposed) :
              \/ Disposed[k] < i
              \/ /\ Disposed[k] = i
                 /\ InCandidate
                 /\ Last(path) \in {"Validated", "RedFlagged"}

\* both candidates of the batch disposed of, one each way
C19_Witness ==
    /\ pc = "done"
    /\ Len(validated_suppliers) = 1
    /\ Len(red_flags) = 1

(***************************************************************************)
(* C20: the candidates are taken one by one in input order, the next only  *)
(* when the one before reached a terminal state; the browser is launched   *)
(* once before the first, is open while the run goes on and is closed once *)
(* after the last.                                                         *)
(***************************************************************************)
C20_OneSession ==
    /\ session.launches <= 1
    /\ session.closes <= 1
    /\ Running => session.open /\ session.launches = 1 /\ session.closes = 0
    /\ pc = "done" => /\ ~session.open
                      /\ session.launches = 1
                      /\ session.closes = 1
                      /\ i = n + 1

C20_InOrder ==
    [][(pc # "idle" /\ i' # i)
         => /\ i' = i + 1
            /\ pc = "next"
            /\ Last(path) \in Terminal]_vars

C20_Sequential == []C20_OneSession /\ C20_InOrder

\* the run over two candidates has ended and closed its browser
C20_Witness ==
    /\ pc = "done"
    /\ i = n + 1
    /\ session = Closed(Launched)
    /\ Len(Disposed) = n

(***************************************************************************)
(* C23: the shipping-duration parser classifies by keyword before any      *)
(* numeric extraction, in the order: 'standard' with 'aliexpress' gives    *)
(* 30; else 'epacket' or 'e-packet' gives 15; else a named courier gives   *)
(* 7; else 'express' gives 10; otherwise 'N days' gives N and 'N-M days'   *)
(* gives M; any other non-empty text gives 30.                             *)
(***************************************************************************)
\* the lower-case text the parser harness evaluated
ShippingText ==
    [k \in 1..Len(parseSt.in) |-> [parseSt.in[k] EXCEPT !.w = Lower(@)]]
ShippingEvaluated ==
    parseSt.fn = "parse_shipping_days" /\ parseSt.done /\ parseSt.in # <<>>

\* the rules, with the set of words that mean ePacket left open
ShippingRules(packet) ==
    LET t == ShippingText
        standard == Contains(t, "standard") /\ Contains(t, "aliexpress")
        epacket == \E kw \in packet : Contains(t, kw)
        courier == Contains(t, "dhl") \/ Contains(t, "fedex") \/ Contains(t, "ups")
        express == Contains(t, "express")
        keyword == standard \/ epacket \/ courier \/ express
        first == Leftmost(DaysMatches(t))
    IN  /\ standard => parseSt.out = Some(30)
        /\ ~standard /\ epacket => parseSt.out = Some(15)
        /\ ~standard /\ ~epacket /\ courier => parseSt.out = Some(7)
        /\ ~standard /\ ~epacket /\ ~courier /\ express => parseSt.out = Some(10)
        /\ ~keyword /\ DaysMatches(t) # {} => parseSt.out = Some(t[first].n)
        /\ ~keyword /\ RangeMatches(t) # {}
              /\ Leftmost(RangeMatches(t)) + 2 = first
              => parseSt.out = Some(t[Leftmost(RangeMatches(t)) + 2].n)
        /\ ~keyword /\ DaysMatches(t) = {} => parseSt.out = Some(30)

\* C23 as stated: 'epacket' is the only word that gives 15
C23_EpacketOnly == ShippingEvaluated => ShippingRules({"epacket"})
\* C23 amended: 'epacket' or 'e-packet' gives 15
C23_ShippingPriority == ShippingEvaluated => ShippingRules({"epacket", "e-packet"})
\* 'E-Packet 12 days' was parsed to 15
C23_Witness ==
    /\ ShippingEvaluated
    /\ parseSt.in = <<Word("E-Packet"), Num(12), Word("days")>>
    /\ parseSt.out = Some(15)

(***************************************************************************)
(* C25: the magnitude parser never returns null and never throws; it       *)
(* returns the number scaled by 1,000 or 1,000,000 when the number carries *)
(* a K or M suffix (in either case), otherwise the first digit run of the  *)
(* text, and 0 when the text holds no number.                              *)
(***************************************************************************)
NumberEvaluated == parseSt.fn = "parse_number" /\ parseSt.done

\* the first number of a text that holds a digit: its whole digits, the
\* digits after its point, and the character that follows it ("" at the end)
FirstNumber(text) ==
    LET whole == FirstDigits(text)
        k == Leftmost({j \in 1..Len(text) : IsDigit(text[j])})
        after == SubSeq(text, k + Len(whole), Len(text))
        pointed == Len(after) >= 2 /\ after[1] = "." /\ IsDigit(after[2])
        frac == IF pointed THEN FirstDigits(after) ELSE <<>>
        rest == IF pointed THEN SubSeq(after, Len(frac) + 2, Len(after))
                ELSE after
    IN  [whole |-> whole, frac |-> frac,
         suffix |-> IF rest = <<>> THEN "" ELSE Upper(rest[1]),
         fraction |-> k > 1 /\ text[k - 1] = "."]

C25_Magnitude ==
    NumberEvaluated =>
        LET text == parseSt.in
            number == FirstNumber(text)
            scaled(e) == IntOf(number.whole) * 10^e + IntOf(Padded(number.frac, e))
        IN  /\ parseSt.out \in Nat
            /\ IF \A k \in 1..Len(text) : ~IsDigit(text[k])
                    THEN parseSt.out = 0
               ELSE IF number.fraction THEN TRUE
               ELSE IF number.suffix = "K" THEN parseSt.out = scaled(3)
               ELSE IF number.suffix = "M" THEN parseSt.out = scaled(6)
               ELSE parseSt.out = IntOf(number.whole)

(***************************************************************************)
(* C26: the output of deduplication is an order-preserving subsequence of  *)
(* the input; a product is dropped only for an earlier product that was    *)
(* kept; and no two kept products have the same title, compared without    *)
(* case, or share three or more words among their first five title words.  *)
(***************************************************************************)
DedupeEvaluated == parseSt.fn = "deduplicate_products" /\ parseSt.done

SameTitle(a, b) ==
    /\ Len(a.title) = Len(b.title)
    /\ \A k \in 1..Len(a.title) : Lower(a.title[k]) = Lower(b.title[k])
ShareThree(a, b) ==
    Cardinality(title_words(a.title) \cap title_words(b.title)) >= 3

C26_Collapsed ==
    DedupeEvaluated =>
        LET products == parseSt.in
            unique == parseSt.out
        IN  /\ \A j \in 1..Len(unique) :
                  /\ unique[j].id \in 1..Len(products)
                  /\ products[unique[j].id] = unique[j]
                  /\ j > 1 => unique[j - 1].id < unique[j].id
            /\ \A k \in 1..Len(products) :
                  (\A j \in 1..Len(unique) : unique[j].id # k) =>
                      \E j \in 1..Len(unique) :
                          /\ unique[j].id < k
                          /\ \/ SameTitle(unique[j], products[k])
                             \/ ShareThree(unique[j], products[k])
            /\ \A j, k \in 1..Len(unique) :
                  j < k => /\ ~SameTitle(unique[j], unique[k])
                           /\ ~ShareThree(unique[j], unique[k])

(***************************************************************************)
(* C24: the date parser never throws; it tries ISO Y-M-D, US M/D/Y,        *)
(* 'Month D, Year' and 'Year Month D' in this order and returns the full   *)
(* date of the first that matches; if none matches it returns January 1 of *)
(* a 4-digit year of the text that lies in [2000, current year]; if there  *)
(* is no such year it returns null.                                        *)
(***************************************************************************)
DateEvaluated == parseSt.fn = "parse_date" /\ parseSt.done

\* the dates of each form that a text holds, by the token they start at
IsoDates(text) ==
    {p \in YearFirstMatches(text) :
        /\ text[p + 1].k = "-" /\ text[p + 3].k = "-"
        /\ MakeDate(IntOf(LastFour(text[p])), IntOf(text[p + 2].s),
                    IntOf(FirstTwo(text[p + 4]))) # None}
UsDates(text) ==
    {p \in YearLastMatches(text) :
        /\ text[p + 1].k = "/" /\ text[p + 3].k = "/"
        /\ MakeDate(IntOf(FirstFour(text[p + 4])), IntOf(LastTwo(text[p])),
                    IntOf(text[p + 2].s)) # None}
LongFormDates(text) ==
    {p \in LongFormMatches(text) :
        /\ text[p].k = "w"
        /\ MakeDate(IntOf(FirstFour(text[p + 5])), MonthOf(text[p].s[1]),
                    IntOf(text[p + 2].s)) # None}
YearWordDates(text) ==
    {p \in 1..Len(text) :
        /\ <<p, p + 2>> \in YearWordMatches(text)
        /\ text[p + 2].k = "w"
        /\ MakeDate(IntOf(LastFour(text[p])), MonthOf(text[p + 2].s[1]),
                    IntOf(FirstTwo(text[p + 4]))) # None}
\* the 4-digit years of a text that lie in [2000, current year]
YearsInRange(text) ==
    {IntOf(text[p].s) : p \in {q \in 1..Len(text) :
        /\ text[q].k = "d" /\ Len(text[q].s) = 4
        /\ 2000 <= IntOf(text[q].s) /\ IntOf(text[q].s) <= CurrentYear}}

C24_DateParsed ==
    DateEvaluated =>
        LET text == parseSt.in
            iso == Leftmost(IsoDates(text))
            us == Leftmost(UsDates(text))
            long == Leftmost(LongFormDates(text))
            yw == Leftmost(YearWordDates(text))
        IN  IF IsoDates(text) # {}
                THEN parseSt.out =
                         MakeDate(IntOf(LastFour(text[iso])), IntOf(text[iso + 2].s),
                                  IntOf(FirstTwo(text[iso + 4])))
            ELSE IF UsDates(text) # {}
                THEN parseSt.out =
                         MakeDate(IntOf(FirstFour(text[us + 4])), IntOf(LastTwo(text[us])),
                                  IntOf(text[us + 2].s))
            ELSE IF LongFormDates(text) # {}
                THEN parseSt.out =
                         MakeDate(IntOf(FirstFour(text[long + 5])),
                                  MonthOf(text[long].s[1]), IntOf(text[long + 2].s))
            ELSE IF YearWordDates(text) # {}
                THEN parseSt.out =
                         MakeDate(IntOf(LastFour(text[yw])), MonthOf(text[yw + 2].s[1]),
                                  IntOf(FirstTwo(text[yw + 4])))
            ELSE IF YearsInRange(text) # {}
                THEN \E year \in YearsInRange(text) :
                         parseSt.out = Some(Date(year, 1, 1))
            ELSE parseSt.out = None

(***************************************************************************)
(* C27: a scraping error recorded during the store inspection is part of   *)
(* the flags evaluated at RedFlagCheck: a candidate whose inspection       *)
(* recorded a scraping error is never given the disposition Validated.     *)
(***************************************************************************)
C27_ScrapeErrorNeverValidated ==
    [][(pc = "check" /\ Val(store_info).red_flags # <<>>)
           => Last(path') # "Validated"]_vars

(***************************************************************************)
(* C30: the equivalence search is retried only when an attempt fails with  *)
(* an error.  An attempt whose page loads and yields no usable link ends   *)
(* the search as not found, with no retry and no backoff delay; an attempt *)
(* that finds a link ends the search with no further attempt.              *)
(***************************************************************************)
IsResult(e) == e.ev = "result"
\* every backoff delay comes right after an attempt that raised, and the
\* attempt that did not raise is the last thing the search did
C30_RetryOnlyOnError ==
    /\ \A k \in 1..Len(net) :
          IsRetry(net[k]) => k > 1 /\ net[k - 1] = Result("error")
    /\ \A k \in 1..Len(net) :
          net[k] \in {Result("nolink"), Result("found")}
              => \A j \in (k + 1)..Len(net) :
                    ~IsRetry(net[j]) /\ ~IsSearch(net[j]) /\ ~IsResult(net[j])
    /\ \A k \in 1..Len(net) :
          (net[k] = Result("nolink") /\ InCandidate)
              => pc = "next" /\ Last(path) = "NotFound" /\ k = Len(net)
    /\ \A k \in 1..Len(net) :
          (IsSearch(net[k]) /\ k > 2) => net[k - 2] = RetrySleep(net[k - 2].d)

\* a search that failed once, was retried and then found no usable link
C30_Witness ==
    /\ pc = "next"
    /\ Last(path) = "NotFound"
    /\ Len(Retries) = 1
    /\ Len(Searches) = 2
    /\ Last(net) = Result("nolink")

(***************************************************************************)
(* C22: within one run the equivalence-links file gets at most one row per *)
(* candidate, and the row is persisted before the store inspection of the  *)
(* candidate starts: a candidate that went through EquivalenceSearch has   *)
(* its row in the file when it is inspected, when its record is made and   *)
(* when its record is written to the ledger.                               *)
(***************************************************************************)
Searched == InCandidate /\ "EquivalenceSearch" \in Elems(path)

C22_AtMostOneLink ==
    /\ \A c \in 1..NumCand :
          Cardinality({k \in 1..Len(ThisRun(equivalents)) :
                          ThisRun(equivalents)[k] = c}) <= 1
    /\ (Searched /\ (pc = "validate" \/ "StoreInspection" \in Elems(path)
                      \/ i \in Recorded \/ i \in Elems(ThisRun(ledger))))
          => i \in Elems(ThisRun(equivalents))

C22_LinkBeforeRecord ==
    [][(Searched /\ pc' # "crashed"
          /\ (validated_suppliers' # validated_suppliers
                 \/ red_flags' # red_flags \/ store_info' # store_info))
         => /\ i \in Elems(ThisRun(equivalents))
            /\ equivalents' = equivalents]_vars

C22_LinkOncePersisted == []C22_AtMostOneLink /\ C22_LinkBeforeRecord

\* the record of a candidate found by the search is in the ledger, and its
\* equivalence-link row was in the file before
C22_Witness ==
    /\ pc = "next"
    /\ origin = "amazon"
    /\ Last(path) = "Validated"
    /\ i \in Elems(ThisRun(ledger))
    /\ i \in Elems(ThisRun(equivalents))

(***************************************************************************)
(* C28: every row the validation writes to the ledger satisfies the        *)
(* acceptance criteria when it is written: its store age is known and at   *)
(* least 1.0 year, its feedback is known and at least 95, its shipping     *)
(* estimate is unknown or at most 30 days; so none of its age, open-date   *)
(* and feedback fields is 'N/A'.                                           *)
(***************************************************************************)
Accepted(fields) ==
    /\ fields.store_age_years # NA /\ Val(fields.store_age_years) >= 10
    /\ fields.store_open_date # NA
    /\ fields.feedback_percentage # NA /\ Val(fields.feedback_percentage) >= 950
    /\ fields.shipping_days = None \/ Val(fields.shipping_days) <= 30

\* the rows on disk and the rows written to the open file
C28_RowsAccepted ==
    \A line \in Elems(Lines(ledger)) \cup Elems(buf) :
        (line.kind = "row" /\ line.fmt = "supplier") => Accepted(line.fields)

\* the ledger holds the row of a store two years old with 98% feedback and
\* AliExpress Standard Shipping
C28_Witness ==
    \E line \in Elems(Lines(ledger)) :
        /\ line.kind = "row" /\ line.fmt = "supplier"
        /\ line.fields.store_age_years = Some(20)
        /\ line.fields.feedback_percentage = Some(980)
        /\ line.fields.shipping_days = Some(30)

(***************************************************************************)
(* C29: in aliexpress_equivalents.csv every data row was written with the  *)
(* field names of the file's header row, whatever order the writers of the *)
(* file (append_equivalent, the equivalent finder, the URL extractor) are  *)
(* run in.                                                                 *)
(***************************************************************************)
C29_RowsMatchHeader ==
    \A k \in 1..Len(Lines(equivalents)) :
        Lines(equivalents)[k].kind = "row"
            => /\ Head(Lines(equivalents)).kind = "header"
               /\ Lines(equivalents)[k].fmt = Head(Lines(equivalents)).fmt


(***************************************************************************)
(* C21: for every finite batch of N candidates the batch loop terminates   *)
(* having attempted each candidate exactly once: an error raised while one *)
(* candidate is processed is contained to that candidate and never aborts  *)
(* the batch.                                                              *)
(***************************************************************************)
EachOnce == attempted = [k \in 1..n |-> k]
BatchOver == Validating /\ pc = "done" /\ EachOnce
\* the steps one candidate can still take from a place of the loop body
StepsOf(place, retries) ==
    CASE place = "loop" -> 12 + MAX_RETRIES
      [] place = "find" -> 11 + (MAX_RETRIES - retries)
      [] place = "eq_open" -> 10
      [] place = "eq_write" -> 9
      [] place = "eq_close" -> 8
      [] place = "validate" -> 7
      [] place = "check" -> 6
      [] place = "vs_open" -> 5
      [] place = "vs_write" -> 4
      [] place = "vs_close" -> 3
      [] place = "next" -> 2
      [] OTHER -> 0
\* a bound on the steps the batch can still take: what is left of the
\* current candidate and a full body for every candidate after it
StepsLeft ==
    IF pc = "idle" THEN (NumCand + 1) * (13 + MAX_RETRIES) + 1
    ELSE IF pc = "done" THEN 0
    ELSE (n + 1 - i) * (13 + MAX_RETRIES) + StepsOf(pc, retry_count)
\* wherever the run is before its end, the step the code takes there can be
\* taken
NeverStuck ==
    /\ pc = "idle" => ENABLED StartComplete /\ ENABLED StartValidateAll
    /\ pc = "loop" => ENABLED StartCandidate \/ ENABLED FinishRun
    /\ pc = "find" => ENABLED FindNavError /\ ENABLED FindNoLink /\ ENABLED FindFound
    /\ pc = "eq_open" => ENABLED AppendEquivalentOpen /\ ENABLED AppendRaises
    /\ pc = "eq_write" => ENABLED AppendEquivalentWrite
    /\ pc = "eq_close" => ENABLED AppendEquivalentClose
    /\ pc = "validate" =>
          ENABLED ValidateNotSupplier \/ ENABLED ScrapeAliExpress \/ ENABLED ScrapeCJ
    /\ pc = "check" => ENABLED RedFlagCheck
    /\ pc = "vs_open" => ENABLED AppendSupplierOpen /\ ENABLED AppendRaises
    /\ pc = "vs_write" => ENABLED AppendSupplierWrite
    /\ pc = "vs_close" => ENABLED AppendSupplierClose
    /\ pc = "next" => ENABLED NextCandidate
    /\ pc \in {"idle", "loop", "find", "eq_open", "eq_write", "eq_close", "validate",
               "check", "vs_open", "vs_write", "vs_close", "next", "done"}
\* the loop never enters its body twice for a candidate, nor out of order
AttemptedInOrder ==
    \A k \in 1..Len(attempted) : attempted[k] = k
\* the run is never stuck before its end, every step brings the end nearer,
\* and at the end every candidate was attempted exactly once: under the
\* fairness of SpecLive the batch terminates
C21_BatchTerminates ==
    /\ []NeverStuck
    /\ [][StepsLeft' < StepsLeft /\ StepsLeft' >= 0]_vars
    /\ [](AttemptedInOrder /\ (pc = "done" => BatchOver))
\* the same, as TLC checks it directly
C21_Eventually == <>BatchOver
\* the batch is over although the append of its last candidate raised
C21_Witness ==
    /\ BatchOver
    /\ n = NumCand
    /\ path # <<>>
    /\ Last(path) = "Error"

====
